---- MODULE Spec2Model ----
(***************************************************************************)
(* Analytics/aggregation engine of the fleet revenue backend               *)
(* (src/app/utils/common.py) together with the endpoints that feed it.     *)
(*                                                                         *)
(* Representation.                                                         *)
(*  - A Python str is a sequence of one-character strings, so that strip,  *)
(*    upper, startswith and the first character are computed, not assumed. *)
(*  - A date is its day number (an integer); a Timedelta of k days is k.   *)
(*  - An amount is a whole number of currency units.  Sums of amounts are  *)
(*    exact here, as they are in binary floating point for whole numbers   *)
(*    below 2^53; rounding of fractional amounts is outside the model.     *)
(*  - A remittance is kept in thousandths of a currency unit (FullRate),   *)
(*    which makes 0.84, 0.875 and value/100 exact.                         *)
(*  - A quotient (average, trend percent) is a reduced fraction.           *)
(***************************************************************************)
EXTENDS Integers, Sequences, FiniteSets

VARIABLES store, settings, response, users, tokens, calls

vars == <<store, settings, response, users, tokens, calls>>

(***************************************************************************)
(* Bounds of the model.                                                    *)
(***************************************************************************)
MaxRecords == 3
MaxRevenue == 2
MaxFleetRecords == 11
MaxSeed == 3
MaxNormSeed == 5
MaxNormRecords == 2
MaxTrendRecords == 3
MaxSeedDays == 7
MaxAddedDays == 9
MaxCallers == 2
MaxFiles == 2
MaxUploadStore == 3
MaxSharedRecords == 2

(***************************************************************************)
(* Python str operations on sequences of characters.                       *)
(***************************************************************************)
Digits == <<"0", "1", "2", "3", "4", "5", "6", "7", "8", "9">>
UpperCase == <<"A", "B", "C", "D", "E", "F", "L", "M", "N", "O", "R", "S", "T", "U", "V", "X">>
LowerCase == <<"a", "b", "c", "d", "e", "f", "l", "m", "n", "o", "r", "s", "t", "u", "v", "x">>

Range(s) == {s[i] : i \in DOMAIN s}

IndexOf(s, c) == CHOOSE i \in DOMAIN s : s[i] = c

IsSpace(c) == c = " "

IsDigit(c) == c \in Range(Digits)

DigitValue(c) == IndexOf(Digits, c) - 1

RECURSIVE lstrip(_)
lstrip(s) == IF s # <<>> /\ IsSpace(Head(s)) THEN lstrip(Tail(s)) ELSE s

RECURSIVE rstrip(_)
rstrip(s) ==
    IF s # <<>> /\ IsSpace(s[Len(s)]) THEN rstrip(SubSeq(s, 1, Len(s) - 1)) ELSE s

strip(s) == rstrip(lstrip(s))

upper_char(c) == IF c \in Range(LowerCase) THEN UpperCase[IndexOf(LowerCase, c)] ELSE c

upper(s) == [i \in DOMAIN s |-> upper_char(s[i])]

lower_char(c) == IF c \in Range(UpperCase) THEN LowerCase[IndexOf(UpperCase, c)] ELSE c

lower(s) == [i \in DOMAIN s |-> lower_char(s[i])]

startswith(s, p) == Len(s) >= Len(p) /\ SubSeq(s, 1, Len(p)) = p

(* Code points, for the order Python and pandas sort str values in. *)
CodePoints == <<" ", "-", ".", "/">>
              \o Digits \o UpperCase \o <<"_">> \o LowerCase

ord(c) == IndexOf(CodePoints, c)

RECURSIVE str_lt(_, _)
str_lt(a, b) ==
    IF b = <<>> THEN FALSE
    ELSE IF a = <<>> THEN TRUE
    ELSE IF Head(a) # Head(b) THEN ord(Head(a)) < ord(Head(b))
    ELSE str_lt(Tail(a), Tail(b))

(***************************************************************************)
(* float(str), for the strings that can be written with the characters     *)
(* above: optional surrounding spaces, an optional sign, digits with an    *)
(* optional decimal point.  Anything else raises ValueError (ok = FALSE).  *)
(* The value is returned in tenths; the strings drawn below have at most   *)
(* one digit after the point.                                              *)
(***************************************************************************)
AllDigits(s) == \A i \in DOMAIN s : IsDigit(s[i])

RECURSIVE DecimalValue(_)
DecimalValue(s) ==
    IF s = <<>> THEN 0
    ELSE 10 * DecimalValue(SubSeq(s, 1, Len(s) - 1)) + DigitValue(s[Len(s)])

PointAt(s) == IF "." \in Range(s) THEN CHOOSE i \in DOMAIN s : s[i] = "." /\ \A j \in 1..(i - 1) : s[j] # "." ELSE 0

UnsignedTenths(s) ==
    LET p == PointAt(s)
        whole == IF p = 0 THEN s ELSE SubSeq(s, 1, p - 1)
        frac == IF p = 0 THEN <<>> ELSE SubSeq(s, p + 1, Len(s))
    IN  IF AllDigits(whole) /\ AllDigits(frac) /\ Len(whole) + Len(frac) > 0 /\ Len(frac) <= 1
        THEN [ok |-> TRUE,
              tenths |-> 10 * DecimalValue(whole) + DecimalValue(frac)]
        ELSE [ok |-> FALSE, tenths |-> 0]

float(s) ==
    LET t == strip(s)
        neg == t # <<>> /\ Head(t) = "-"
        body == IF neg THEN Tail(t) ELSE t
        u == UnsignedTenths(body)
    IN  [ok |-> u.ok, tenths |-> IF neg THEN 0 - u.tenths ELSE u.tenths]

(***************************************************************************)
(* Remittance Rule Resolver: calculate_remittance(revenue, fleet_code,     *)
(* config).  config is None or a dict, a function from keys to  *)
(* value strings.  The returned value is in thousandths (FullRate = 1.0). *)
(***************************************************************************)
FullRate == 1000
Rate1 == 840
Rate2 == 875

EmptyDict == [k \in {} |-> <<>>]

None == [is_none |-> TRUE, items |-> EmptyDict]

Dict(f) == [is_none |-> FALSE, items |-> f]

(* `if config:` is false for None and for the empty dict. *)
Truthy(config) == ~config.is_none /\ DOMAIN config.items # {}

rate_key(prefix) == <<"REMITTANCE_">> \o prefix

Return(v) == [raised |-> FALSE, value |-> v]

Raise == [raised |-> TRUE, value |-> 0]

default_remittance(revenue, fleet_code) ==
    IF startswith(fleet_code, <<"1">>) THEN Return(revenue * Rate1)
    ELSE IF startswith(fleet_code, <<"2">>) THEN Return(revenue * Rate2)
    ELSE Return(revenue * FullRate)

(* The body of the try block: rate = float(config[rate_key]) / 100 and   *)
(* revenue * rate.  float() raising ValueError is its only exception.    *)
try_override(revenue, value) ==
    LET f == float(value)
    IN  IF f.ok THEN Return(revenue * f.tenths) ELSE Raise

(* Variant: the defaults test the code as passed, not the trimmed one. *)
calculate_remittance_untrimmed(revenue, raw_code, config) ==
    LET fleet_code == strip(raw_code)
        prefix == IF fleet_code # <<>> THEN <<Head(fleet_code)>> ELSE <<>>
        key == rate_key(prefix)
        has_key == Truthy(config) /\ key \in DOMAIN config.items
    IN  IF has_key /\ ~try_override(revenue, config.items[key]).raised
        THEN try_override(revenue, config.items[key])
        ELSE default_remittance(revenue, raw_code)

(* Variant: no except clause, the ValueError of float() escapes. *)
calculate_remittance_no_except(revenue, raw_code, config) ==
    LET fleet_code == strip(raw_code)
        prefix == IF fleet_code # <<>> THEN <<Head(fleet_code)>> ELSE <<>>
        key == rate_key(prefix)
        has_key == Truthy(config) /\ key \in DOMAIN config.items
    IN  IF has_key
        THEN try_override(revenue, config.items[key])
        ELSE default_remittance(revenue, fleet_code)

calculate_remittance(revenue, raw_code, config) ==
    LET fleet_code == strip(raw_code)
        prefix == IF fleet_code # <<>> THEN <<Head(fleet_code)>> ELSE <<>>
        key == rate_key(prefix)
        has_key == Truthy(config) /\ key \in DOMAIN config.items
    IN  IF has_key /\ ~try_override(revenue, config.items[key]).raised
        THEN try_override(revenue, config.items[key])
        ELSE default_remittance(revenue, fleet_code)

(***************************************************************************)
(* Arithmetic helpers.                                                     *)
(***************************************************************************)
Abs(x) == IF x < 0 THEN 0 - x ELSE x

RECURSIVE GCD(_, _)
GCD(a, b) == IF b = 0 THEN a ELSE GCD(b, a % b)

(* The quotient n / d (d > 0) as a reduced fraction. *)
Frac(n, d) ==
    LET g == GCD(Abs(n), d)
    IN  [num |-> n \div g, den |-> d \div g]

RECURSIVE SumSeq(_)
SumSeq(s) == IF s = <<>> THEN 0 ELSE Head(s) + SumSeq(Tail(s))

Column(df, name) == [i \in DOMAIN df |-> df[i][name]]

(***************************************************************************)
(* DataFrame operations used by the engine.  A DataFrame is the sequence   *)
(* of its rows.                                                            *)
(***************************************************************************)
(* Variant: the mask is dropped, every row is taken. *)
FleetRows_unfiltered(df, fleet) == df

(* df[mask]: the rows satisfying the mask, in order. *)
FleetRows(df, fleet) == SelectSeq(df, LAMBDA row : row.fleet = fleet)

(* df['fleet'].unique(): the distinct values in order of first appearance. *)
RECURSIVE unique(_)
unique(s) ==
    IF s = <<>> THEN <<>>
    ELSE LET rest == unique(SubSeq(s, 1, Len(s) - 1))
         IN  IF s[Len(s)] \in Range(rest) THEN rest ELSE Append(rest, s[Len(s)])

(* Group keys in ascending order (groupby sorts its keys). *)
(* Variant: ordered by fleet first, then by date. *)
key_lt_fleet_first(a, b) ==
    \/ str_lt(a.fleet, b.fleet)
    \/ a.fleet = b.fleet /\ a.date < b.date

key_lt(a, b) ==
    \/ a.date < b.date
    \/ a.date = b.date /\ str_lt(a.fleet, b.fleet)

RECURSIVE InsertKey(_, _)
InsertKey(sorted, x) ==
    IF sorted = <<>> THEN <<x>>
    ELSE IF key_lt(x, Head(sorted)) THEN <<x>> \o sorted
    ELSE <<Head(sorted)>> \o InsertKey(Tail(sorted), x)

RECURSIVE SortedKeys(_)
SortedKeys(S) ==
    IF S = {} THEN <<>>
    ELSE LET x == CHOOSE y \in S : TRUE
         IN  InsertKey(SortedKeys(S \ {x}), x)

(* Variant: agg(["sum", "nunique"]), the distinct amounts are counted. *)
groupby_fleet_nunique(df) ==
    LET keys == SortedKeys({[date |-> 0, fleet |-> df[i].fleet] : i \in DOMAIN df})
    IN  [k \in DOMAIN keys |->
            LET rows == FleetRows(df, keys[k].fleet)
            IN  [fleet |-> keys[k].fleet,
                 sum |-> SumSeq(Column(rows, "amount")),
                 count |-> Cardinality(Range(Column(rows, "amount")))]]

(* df.groupby("fleet")["amount"].agg(["sum", "count"]).reset_index() *)
groupby_fleet(df) ==
    LET keys == SortedKeys({[date |-> 0, fleet |-> df[i].fleet] : i \in DOMAIN df})
    IN  [k \in DOMAIN keys |->
            LET rows == FleetRows(df, keys[k].fleet)
            IN  [fleet |-> keys[k].fleet,
                 sum |-> SumSeq(Column(rows, "amount")),
                 count |-> Len(rows)]]

(* Variant: the rows of a (date, fleet) group are selected by date alone. *)
groupby_date_fleet_by_date(df) ==
    LET keys == SortedKeys({[date |-> df[i].date, fleet |-> df[i].fleet] : i \in DOMAIN df})
    IN  [k \in DOMAIN keys |->
            LET rows == SelectSeq(df, LAMBDA row : row.date = keys[k].date)
            IN  [date |-> keys[k].date,
                 fleet |-> keys[k].fleet,
                 sum |-> SumSeq(Column(rows, "amount")),
                 count |-> Len(rows)]]

(* df.groupby(["date", "fleet"])["amount"].agg(["sum", "count"])           *)
(*   .reset_index().sort_values(by=["date", "fleet"])                      *)
groupby_date_fleet(df) ==
    LET keys == SortedKeys({[date |-> df[i].date, fleet |-> df[i].fleet] : i \in DOMAIN df})
    IN  [k \in DOMAIN keys |->
            LET rows == SelectSeq(df, LAMBDA row :
                            row.date = keys[k].date /\ row.fleet = keys[k].fleet)
            IN  [date |-> keys[k].date,
                 fleet |-> keys[k].fleet,
                 sum |-> SumSeq(Column(rows, "amount")),
                 count |-> Len(rows)]]

(* Variant: the first row of the table is taken. *)
idxmax_first_row(grp) == 1

(* grp["sum"].idxmax(): the first row holding the maximum. *)
idxmax(grp) ==
    CHOOSE i \in DOMAIN grp :
        /\ \A j \in DOMAIN grp : grp[j].sum <= grp[i].sum
        /\ \A j \in 1..(i - 1) : grp[j].sum < grp[i].sum

RECURSIVE MaxOf(_)
MaxOf(S) ==
    LET x == CHOOSE y \in S : TRUE
    IN  IF S = {x} THEN x
        ELSE LET m == MaxOf(S \ {x}) IN IF m < x THEN x ELSE m

(***************************************************************************)
(* Anomaly Detector: DataProcessor.detect_anomalies(df).                   *)
(*                                                                         *)
(* With n rows of sum S, the deviation of x from the mean is (n*x - S)/n   *)
(* and the sample variance is SumSqDev / (n*n*(n-1)), where SumSqDev is    *)
(* the sum of the (n*x_i - S)^2.  Hence z = |x - mean| / std satisfies     *)
(* z > k exactly when (n*x - S)^2 * (n-1) > k*k * SumSqDev, which is how   *)
(* the comparisons of the code are evaluated here, without rounding.       *)
(***************************************************************************)
MinSample == 5
ZHigh == 3
ZMedium == 2

RECURSIVE Flatten(_)
Flatten(ss) == IF ss = <<>> THEN <<>> ELSE Head(ss) \o Flatten(Tail(ss))

(* n * (x - mean), for n values of sum total *)
ScaledDev(x, n, total) == n * x - total

(* n * n * (n - 1) * std^2 *)
SumSqDev(amounts) ==
    LET n == Len(amounts)
        total == SumSeq(amounts)
    IN  SumSeq([i \in DOMAIN amounts |->
                   ScaledDev(amounts[i], n, total) * ScaledDev(amounts[i], n, total)])

(* Variant: abs() is missing, z_score = (x - mean) / std. *)
ZScoreAbove_signed(x, n, total, ssd, k) ==
    /\ ScaledDev(x, n, total) > 0
    /\ ScaledDev(x, n, total) * ScaledDev(x, n, total) * (n - 1) > k * k * ssd

(* z_score > k, for z_score = abs(x - mean) / std *)
ZScoreAbove(x, n, total, ssd, k) ==
    ScaledDev(x, n, total) * ScaledDev(x, n, total) * (n - 1) > k * k * ssd

Anomaly(row, reason, severity) ==
    [date |-> row.date, fleet |-> row.fleet, amount |-> row.amount,
     reason |-> reason, severity |-> severity]

(* Variant: both branches test the lower threshold. *)
row_anomalies_one_threshold(row, n, total, ssd) ==
    IF ZScoreAbove(row.amount, n, total, ssd, ZMedium)
    THEN <<Anomaly(row, "Significant deviation (Z-score)", "high")>>
    ELSE IF ZScoreAbove(row.amount, n, total, ssd, ZMedium)
    THEN <<Anomaly(row, "Unusual amount for this fleet", "medium")>>
    ELSE <<>>

(* Variant: a third branch reports z_score > 1 with severity "low". *)
row_anomalies_with_low(row, n, total, ssd) ==
    IF ZScoreAbove(row.amount, n, total, ssd, ZHigh)
    THEN <<Anomaly(row, "Significant deviation (Z-score)", "high")>>
    ELSE IF ZScoreAbove(row.amount, n, total, ssd, ZMedium)
    THEN <<Anomaly(row, "Unusual amount for this fleet", "medium")>>
    ELSE IF ZScoreAbove(row.amount, n, total, ssd, 1)
    THEN <<Anomaly(row, "Unusual amount for this fleet", "low")>>
    ELSE <<>>

(* The if / elif of the inner loop, for one row. *)
row_anomalies(row, n, total, ssd) ==
    IF ZScoreAbove(row.amount, n, total, ssd, ZHigh)
    THEN <<Anomaly(row, "Significant deviation (Z-score)", "high")>>
    ELSE IF ZScoreAbove(row.amount, n, total, ssd, ZMedium)
    THEN <<Anomaly(row, "Unusual amount for this fleet", "medium")>>
    ELSE <<>>

(* One iteration of the loop over the fleets: the size guard, mean and    *)
(* std, the std == 0 guard, and the loop over the fleet's rows.           *)
fleet_anomalies(fleet_df) ==
    LET amounts == Column(fleet_df, "amount")
        n == Len(fleet_df)
        total == SumSeq(amounts)
        ssd == SumSqDev(amounts)
    IN  IF n < MinSample THEN <<>>
        ELSE IF ssd = 0 THEN <<>>
        ELSE Flatten([i \in DOMAIN fleet_df |-> row_anomalies(fleet_df[i], n, total, ssd)])

detect_anomalies(df) ==
    IF df = <<>> THEN <<>>
    ELSE LET fleets == unique(Column(df, "fleet"))
         IN  Flatten([k \in DOMAIN fleets |-> fleet_anomalies(FleetRows(df, fleets[k]))])

(***************************************************************************)
(* Aggregator: DataProcessor.process_analytics(records), with the system   *)
(* settings get_system_config() reads from the database.                   *)
(***************************************************************************)
(* Variant: the alias "2010M" is not resolved. *)
normalize_fleet_no_alias(raw) == upper(strip(raw))

normalize_fleet(raw) ==
    LET fleet_name == upper(strip(raw))
    IN  IF fleet_name = <<"2", "0", "1", "0", "M">> THEN <<"2", "0", "1", "0">>
        ELSE fleet_name

get_system_config(db_settings) == Dict(db_settings)

Zero == Frac(0, 1)

DashboardStats(total_revenue, total_records, top_fleet, average, trend) ==
    [total_revenue |-> total_revenue,
     total_records |-> total_records,
     top_performing_fleet |-> top_fleet,
     average_trip_revenue |-> average,
     predicted_revenue |-> Zero,
     revenue_trend_percent |-> trend]

NA == <<"N", "/", "A">>

(* Variant: the remittance is computed without the configuration. *)
fleet_summaries_no_config(fleet_grp, config) ==
    [k \in DOMAIN fleet_grp |->
        LET fleet_code == strip(fleet_grp[k].fleet)
            revenue == fleet_grp[k].sum
        IN  [fleet |-> fleet_code,
             total_amount |-> revenue,
             record_count |-> fleet_grp[k].count,
             remittance |-> calculate_remittance(revenue, fleet_code, None).value]]

fleet_summaries(fleet_grp, config) ==
    [k \in DOMAIN fleet_grp |->
        LET fleet_code == strip(fleet_grp[k].fleet)
            revenue == fleet_grp[k].sum
        IN  [fleet |-> fleet_code,
             total_amount |-> revenue,
             record_count |-> fleet_grp[k].count,
             remittance |-> calculate_remittance(revenue, fleet_code, config).value]]

daily_subtotals(daily_grp) ==
    [k \in DOMAIN daily_grp |->
        [date |-> daily_grp[k].date, fleet |-> daily_grp[k].fleet,
         daily_total |-> daily_grp[k].sum, pax |-> daily_grp[k].count]]

WindowDays == 7

(* Variant: the previous window has no lower end. *)
trend_percent_unbounded(df) ==
    LET max_date == MaxOf(Range(Column(df, "date")))
        last_7_days == SelectSeq(df, LAMBDA row : row.date >= max_date - WindowDays)
        prev_7_days == SelectSeq(df, LAMBDA row : row.date < max_date - WindowDays)
        rev_last == SumSeq(Column(last_7_days, "amount"))
        rev_prev == SumSeq(Column(prev_7_days, "amount"))
    IN  IF rev_prev > 0 THEN Frac((rev_last - rev_prev) * 100, rev_prev) ELSE Zero

trend_percent(df) ==
    LET max_date == MaxOf(Range(Column(df, "date")))
        last_7_days == SelectSeq(df, LAMBDA row : row.date >= max_date - WindowDays)
        prev_7_days == SelectSeq(df, LAMBDA row :
                           /\ row.date < max_date - WindowDays
                           /\ row.date >= max_date - 2 * WindowDays)
        rev_last == SumSeq(Column(last_7_days, "amount"))
        rev_prev == SumSeq(Column(prev_7_days, "amount"))
    IN  IF rev_prev > 0 THEN Frac((rev_last - rev_prev) * 100, rev_prev) ELSE Zero

process_analytics(records, db_settings) ==
    IF records = <<>>
    THEN [records |-> <<>>,
          fleet_summaries |-> <<>>,
          daily_subtotals |-> <<>>,
          dashboard_stats |-> DashboardStats(0, 0, NA, Zero, Zero),
          anomalies |-> <<>>]
    ELSE LET df == [i \in DOMAIN records |->
                       [id |-> records[i].id,
                        date |-> records[i].date,
                        fleet |-> normalize_fleet(records[i].fleet),
                        amount |-> records[i].amount]]
             config == get_system_config(db_settings)
             fleet_grp == groupby_fleet(df)
             daily_grp == groupby_date_fleet(df)
             total_rev == SumSeq(Column(df, "amount"))
             total_count == Len(df)
             avg_rev == IF total_count > 0 THEN Frac(total_rev, total_count) ELSE Zero
             top_fleet == IF fleet_grp # <<>> THEN fleet_grp[idxmax(fleet_grp)].fleet ELSE NA
         IN  [records |-> df,
              fleet_summaries |-> fleet_summaries(fleet_grp, config),
              daily_subtotals |-> daily_subtotals(daily_grp),
              dashboard_stats |->
                  DashboardStats(total_rev, total_count, top_fleet, avg_rev, trend_percent(df)),
              anomalies |-> detect_anomalies(df)]

(***************************************************************************)
(* Report Formatter: ReportGenerator.generate_excel(analytics), up to the  *)
(* four tables it writes to the workbook, one per sheet.  Column names     *)
(* are written with _ for the space.  REMITTANCE and FUEL_USED are in      *)
(* thousandths, as the remittance is.                                      *)
(***************************************************************************)
Subtotal == <<"S", "u", "b", "t", "o", "t", "a", "l">>
GrandTotal == <<"G", "r", "a", "n", "d", " ", "T", "o", "t", "a", "l">>
FuelRate == 300

(* Variant: the Subtotal row is emitted before the rows of its date. *)
date_block_subtotal_first(date_val, group) ==
    <<[Date |-> date_val, BUS_CODE |-> Subtotal,
       PAX |-> SumSeq(Column(group, "count")),
       REVENUE |-> SumSeq(Column(group, "sum"))]>>
    \o [k \in DOMAIN group |->
            [Date |-> group[k].date, BUS_CODE |-> group[k].fleet,
             PAX |-> group[k].count, REVENUE |-> group[k].sum]]

(* One iteration of the loop: the rows of the date, then its Subtotal row. *)
date_block(date_val, group) ==
    LET sub_amt == SumSeq(Column(group, "sum"))
        sub_cnt == SumSeq(Column(group, "count"))
    IN  [k \in DOMAIN group |->
            [Date |-> group[k].date, BUS_CODE |-> group[k].fleet,
             PAX |-> group[k].count, REVENUE |-> group[k].sum]]
        \o <<[Date |-> date_val, BUS_CODE |-> Subtotal,
              PAX |-> sub_cnt, REVENUE |-> sub_amt]>>

(* The loop over grouped.groupby("date"): the dates in ascending order. *)
subtotal_df(grouped) ==
    LET dates == SortedKeys({[date |-> grouped[k].date, fleet |-> <<>>] : k \in DOMAIN grouped})
    IN  Flatten([d \in DOMAIN dates |->
                    date_block(dates[d].date,
                               SelectSeq(grouped, LAMBDA row : row.date = dates[d].date))])

calculate_metrics(row, config) ==
    LET code == strip(row.fleet)
        revenue == row.sum
    IN  [BUS_CODE |-> row.fleet, PAX |-> row.count, REVENUE |-> revenue,
         REMITTANCE |-> calculate_remittance(revenue, code, config).value,
         FUEL_USED |-> revenue * FuelRate]

(* Variant: the remittance of the total row is resolved from the total    *)
(* revenue instead of being summed.                                       *)
grand_total_resolved(rows, config) ==
    [BUS_CODE |-> GrandTotal,
     PAX |-> SumSeq(Column(rows, "PAX")),
     REVENUE |-> SumSeq(Column(rows, "REVENUE")),
     REMITTANCE |->
         calculate_remittance(SumSeq(Column(rows, "REVENUE")), GrandTotal, config).value,
     FUEL_USED |-> SumSeq(Column(rows, "FUEL_USED"))]

grand_total(rows, config) ==
    [BUS_CODE |-> GrandTotal,
     PAX |-> SumSeq(Column(rows, "PAX")),
     REVENUE |-> SumSeq(Column(rows, "REVENUE")),
     REMITTANCE |-> SumSeq(Column(rows, "REMITTANCE")),
     FUEL_USED |-> SumSeq(Column(rows, "FUEL_USED"))]

(* groupby("fleet") returns the fleets sorted, which sort_values keeps. *)
bus_summary_df(df, config) ==
    LET grp == groupby_fleet(df)
        rows == [k \in DOMAIN grp |-> calculate_metrics(grp[k], config)]
    IN  Append(rows, grand_total(rows, config))

stats_df(stats) ==
    <<[Metric |-> "Total Revenue", Value |-> stats.total_revenue],
      [Metric |-> "Total Records", Value |-> stats.total_records],
      [Metric |-> "Top Fleet", Value |-> stats.top_performing_fleet],
      [Metric |-> "Avg Revenue", Value |-> stats.average_trip_revenue]>>

(* Without records the workbook is the single empty default sheet. *)
generate_excel(analytics, db_settings) ==
    IF analytics.records = <<>> THEN [Sheet1 |-> <<>>]
    ELSE LET df == analytics.records
             config == get_system_config(db_settings)
         IN  [Bus_Performance |-> bus_summary_df(df, config),
              Dashboard |-> stats_df(analytics.dashboard_stats),
              Daily_Subtotals |-> subtotal_df(groupby_date_fleet(df)),
              Raw_Data |-> df]

(***************************************************************************)
(* The database and the endpoints.                                         *)
(*   store     the fleet_records table, in insertion order; the id of a    *)
(*             record is its position (autoincrement, no deletion here)    *)
(*   settings  the system_settings table, key -> value                     *)
(*   response  the body of the last response                               *)
(*   calls     the requests in flight that are followed step by step, one  *)
(*             per caller: the local variables of the handler's thread     *)
(***************************************************************************)
NoResponse == [kind |-> "none"]

Callers == 1..MaxCallers
Idle == [pc |-> "idle"]
NoCalls == [c \in Callers |-> Idle]

(* POST /fleet/ : FleetRecordBase validation, then crud.create_fleet_record. *)
create_record(data) ==
    /\ Len(data.fleet) >= 1
    /\ data.amount >= 0
    /\ LET record == [id |-> Len(store) + 1, date |-> data.date,
                      fleet |-> data.fleet, amount |-> data.amount]
       IN  /\ store' = Append(store, record)
           /\ response' = [kind |-> "record", body |-> record]
    /\ UNCHANGED <<settings, users, tokens, calls>>

(* PUT /settings/{key} : create the setting or overwrite its value. *)
update_setting(key, value) ==
    /\ settings' = [k \in DOMAIN settings \cup {key} |->
                       IF k = key THEN value ELSE settings[k]]
    /\ response' = [kind |-> "setting", body |-> [key |-> key, value |-> value]]
    /\ UNCHANGED <<store, users, tokens, calls>>

(* get_filtered_query(...).all() without filters: order_by(date desc).   *)
(* Rows of the same date are returned in insertion order; as records are  *)
(* created in every order, the engine still sees every order of them, and *)
(* the ids, which alone differ, enter no computation.                     *)
RECURSIVE AscendingIds(_)
AscendingIds(ids) ==
    IF ids = {} THEN <<>>
    ELSE LET m == CHOOSE x \in ids : \A y \in ids : x <= y
         IN  <<m>> \o AscendingIds(ids \ {m})

RECURSIVE DateDescending(_, _)
DateDescending(table, ids) ==
    IF ids = {} THEN <<>>
    ELSE LET newest == MaxOf({table[i].date : i \in ids})
             first == {i \in ids : table[i].date = newest}
         IN  AscendingIds(first) \o DateDescending(table, ids \ first)

get_filtered_query(table) ==
    LET order == DateDescending(table, DOMAIN table)
    IN  [k \in DOMAIN order |-> table[order[k]]]

(* GET /analytics/summary without filters or limit. *)
get_analytics_summary ==
    /\ response' = [kind |-> "analytics",
                    body |-> process_analytics(get_filtered_query(store), settings)]
    /\ UNCHANGED <<store, settings, users, tokens, calls>>

(* GET /analytics/dashboard-stats without filters: the aggregates are     *)
(* computed by SQL over the stored rows.                                   *)
RECURSIVE SumOver(_, _)
SumOver(table, ids) ==
    IF ids = {} THEN 0
    ELSE LET i == CHOOSE j \in ids : TRUE
         IN  table[i].amount + SumOver(table, ids \ {i})

(* GROUP BY fleet ORDER BY SUM(amount) DESC LIMIT 1: a group of the       *)
(* largest sum; the database picks among equal sums.                      *)
top_fleet_query(table) ==
    LET fleet_total(f) == SumOver(table, {i \in DOMAIN table : table[i].fleet = f})
        fleets == {table[i].fleet : i \in DOMAIN table}
    IN  {f \in fleets : \A g \in fleets : fleet_total(g) <= fleet_total(f)}

RECURSIVE Descending(_)
Descending(S) ==
    IF S = {} THEN <<>>
    ELSE LET m == MaxOf(S) IN <<m>> \o Descending(S \ {m})

DateLimit == 14
NewestWeight == 14

(* Variant: LIMIT is missing, every date is returned. *)
all_dates_unlimited(table) ==
    LET dates == Descending({table[i].date : i \in DOMAIN table})
    IN  [k \in DOMAIN dates |->
            [date |-> dates[k],
             daily_total |-> SumOver(table, {i \in DOMAIN table : table[i].date = dates[k]})]]

(* SELECT date, SUM(amount) GROUP BY date ORDER BY date DESC LIMIT 14 *)
all_dates(table) ==
    LET dates == Descending({table[i].date : i \in DOMAIN table})
        limited == SubSeq(dates, 1, IF Len(dates) < DateLimit THEN Len(dates) ELSE DateLimit)
    IN  [k \in DOMAIN limited |->
            [date |-> limited[k],
             daily_total |-> SumOver(table, {i \in DOMAIN table : table[i].date = limited[k]})]]

(* Variant: the weights count down to 1 for the oldest date returned. *)
predicted_revenue_to_one(dates) ==
    IF dates = <<>> THEN Zero
    ELSE LET weight(k) == Len(dates) - (k - 1)
             weighted_sum == SumSeq([k \in DOMAIN dates |-> dates[k].daily_total * weight(k)])
             total_weight == SumSeq([k \in DOMAIN dates |-> weight(k)])
         IN  IF total_weight > 0 THEN Frac(weighted_sum, total_weight) ELSE Zero

(* The loop over enumerate(all_dates); position k is index i = k - 1. *)
predicted_revenue(dates) ==
    IF dates = <<>> THEN Zero
    ELSE LET weight(k) == NewestWeight - (k - 1)
             weighted_sum == SumSeq([k \in DOMAIN dates |-> dates[k].daily_total * weight(k)])
             total_weight == SumSeq([k \in DOMAIN dates |-> weight(k)])
         IN  IF total_weight > 0 THEN Frac(weighted_sum, total_weight) ELSE Zero

(* Variant: the division is not guarded; [num 0, den 0] stands for the    *)
(* ZeroDivisionError.                                                      *)
average_trip_revenue_unguarded(total_revenue, total_records) ==
    IF total_records = 0 THEN [num |-> 0, den |-> 0] ELSE Frac(total_revenue, total_records)

average_trip_revenue(total_revenue, total_records) ==
    IF total_records > 0 THEN Frac(total_revenue, total_records) ELSE Zero

get_dashboard_stats ==
    /\ LET total_revenue == SumOver(store, DOMAIN store)
           total_records == Len(store)
           average == average_trip_revenue(total_revenue, total_records)
           tops == IF store = <<>> THEN {NA} ELSE top_fleet_query(store)
       IN  \E top_performing_fleet \in tops :
               response' =
                   [kind |-> "dashboard",
                    body |-> [DashboardStats(total_revenue, total_records,
                                             top_performing_fleet, average, Zero)
                                 EXCEPT !.predicted_revenue = predicted_revenue(all_dates(store))]]
    /\ UNCHANGED <<store, settings, users, tokens, calls>>

(* Variant: the normalized label is written back, r.fleet = fleet_name. *)
records_normalized_in_place(records) ==
    [i \in DOMAIN records |-> [records[i] EXCEPT !.fleet = normalize_fleet(@)]]

(* What a call of process_analytics leaves in the objects of its          *)
(* argument: the loop over the records reads r.id, r.date, r.fleet and    *)
(* r.amount into new dicts and assigns to no attribute, and every later   *)
(* step works on the DataFrame built from those dicts.                    *)
records_after_call(records) == records

(* Two calls of the engine, one after the other, on one list of records   *)
(* and one configuration, the way a test of idempotence makes them.        *)
aggregate_twice ==
    /\ LET records == get_filtered_query(store)
           first == process_analytics(records, settings)
           between == records_after_call(records)
           second == process_analytics(between, settings)
       IN  response' = [kind |-> "twice",
                        records |-> records,
                        first |-> first,
                        second |-> second,
                        records_after |-> records_after_call(between)]
    /\ UNCHANGED <<store, settings, users, tokens, calls>>

(* GET /analytics/download/excel without filters. *)
download_excel_report ==
    /\ LET records == get_filtered_query(store)
           analytics == process_analytics(records, settings)
       IN  response' = [kind |-> "excel", body |-> generate_excel(analytics, settings)]
    /\ UNCHANGED <<store, settings, users, tokens, calls>>

(* A direct call of the resolver, the way the engine's callers and tests   *)
(* use it.                                                                 *)
resolve(revenue, fleet_code, config) ==
    /\ response' = [kind |-> "remittance",
                    revenue |-> revenue, fleet_code |-> fleet_code, config |-> config,
                    ret |-> calculate_remittance(revenue, fleet_code, config)]
    /\ UNCHANGED <<store, settings, users, tokens, calls>>

(***************************************************************************)
(* The analytics endpoints followed statement by statement.  The handlers  *)
(* are plain `def` functions, which the server runs on worker threads, so  *)
(* requests overlap; each read of the database is a step of its own.       *)
(* calls[c] holds the local variables of the request of caller c, which    *)
(* grow from step to step: op, records, df, config, the parts of the       *)
(* result, analytics, excel_config, workbook.                              *)
(***************************************************************************)
With(locals, more) ==
    [name \in DOMAIN locals \cup DOMAIN more |->
        IF name \in DOMAIN more THEN more[name] ELSE locals[name]]

At(c, pc) == calls[c].pc = pc

Goto(c, pc, more) ==
    /\ calls' = [calls EXCEPT ![c] = With(With(calls[c], more), [pc |-> pc])]
    /\ UNCHANGED <<store, settings, users, tokens>>

(* Variant: the variable is a module-level global, so that a read sees    *)
(* what another request in flight has written to it.                      *)
local_shared(c, name) ==
    LET writers == {d \in Callers \ {c} : name \in DOMAIN calls[d]}
    IN  IF writers = {} THEN calls[c][name]
        ELSE calls[CHOOSE d \in writers : TRUE][name]

(* A local variable of the handler of caller c. *)
local(c, name) == calls[c][name]

(* records = query.all() *)
query_all(c, op) ==
    /\ At(c, "idle")
    /\ Goto(c, "queried", [op |-> op, records |-> get_filtered_query(store)])
    /\ UNCHANGED response

(* process_analytics, lines 121-153: the early return, or data, df and    *)
(* config = get_system_config().                                          *)
build_frame(c) ==
    /\ At(c, "queried")
    /\ IF local(c, "records") = <<>>
       THEN Goto(c, "processed", [analytics |-> process_analytics(<<>>, EmptyDict)])
       ELSE Goto(c, "configured",
                 [df |-> [i \in DOMAIN local(c, "records") |->
                             [id |-> local(c, "records")[i].id,
                              date |-> local(c, "records")[i].date,
                              fleet |-> normalize_fleet(local(c, "records")[i].fleet),
                              amount |-> local(c, "records")[i].amount]],
                  config |-> get_system_config(settings)])
    /\ UNCHANGED response

(* Lines 155-205: summaries, subtotals, stats. *)
aggregate(c) ==
    /\ At(c, "configured")
    /\ LET df == local(c, "df")
           fleet_grp == groupby_fleet(df)
           total_rev == SumSeq(Column(df, "amount"))
           total_count == Len(df)
       IN  Goto(c, "aggregated",
                [summaries |-> fleet_summaries(fleet_grp, local(c, "config")),
                 subtotals |-> daily_subtotals(groupby_date_fleet(df)),
                 stats |-> DashboardStats(
                               total_rev, total_count,
                               IF fleet_grp # <<>> THEN fleet_grp[idxmax(fleet_grp)].fleet ELSE NA,
                               IF total_count > 0 THEN Frac(total_rev, total_count) ELSE Zero,
                               trend_percent(df))])
    /\ UNCHANGED response

(* Lines 208-222: anomalies, records, the AnalyticsResponse. *)
finish_analytics(c) ==
    /\ At(c, "aggregated")
    /\ Goto(c, "processed",
            [analytics |-> [records |-> local(c, "df"),
                            fleet_summaries |-> local(c, "summaries"),
                            daily_subtotals |-> local(c, "subtotals"),
                            dashboard_stats |-> local(c, "stats"),
                            anomalies |-> detect_anomalies(local(c, "df"))]])
    /\ UNCHANGED response

(* generate_excel(analytics), which calls get_system_config() again. *)
run_generate_excel(c) ==
    /\ At(c, "processed")
    /\ local(c, "op") = "download"
    /\ Goto(c, "generated",
            [excel_config |-> settings,
             workbook |-> generate_excel(local(c, "analytics"), settings)])
    /\ UNCHANGED response

(* The handler returns: the summary, or the workbook. *)
return_response(c) ==
    /\ \/ At(c, "processed") /\ local(c, "op") = "summary"
       \/ At(c, "generated")
    /\ Goto(c, "returned", [returned |-> TRUE])
    /\ response' = [kind |-> "returned", caller |-> c, op |-> local(c, "op")]

(***************************************************************************)
(* Accounts and tokens (app/auth.py, app/routers/auth_routes.py).          *)
(*   users   the users table, username -> row                              *)
(*   tokens  the JWTs signed so far, each with the endpoint that signed    *)
(*           it; a client presents one of them or a string that does not   *)
(*           verify (Garbage).  Expiry is not modelled: an expired token   *)
(*           behaves as Garbage does.                                      *)
(* A bcrypt hash is kept as the pair <<"bcrypt", password>>, which         *)
(* verifies exactly the password it was made from.                         *)
(***************************************************************************)
NoEmail == "<none>"
NoPurpose == "<none>"
Garbage == [sub |-> "<none>", purpose |-> "<none>", verifies |-> FALSE]
LockThreshold == 5

get_password_hash(password) == <<"bcrypt", password>>

verify_password(plain_password, hashed_password) ==
    hashed_password = get_password_hash(plain_password)

(* crud.create_user: the row of a new user. *)
new_user(password, role, email) ==
    [hashed_password |-> get_password_hash(password), role |-> role, email |-> email,
     failed_login_attempts |-> 0, is_locked |-> FALSE]

(* lifespan: the default admin is created when the table has none. *)
SeedUsers == [u \in {"admin"} |-> new_user("admin123", "admin", NoEmail)]

(* jwt.encode of the payload (the exp claim left out). *)
create_access_token(data) == [sub |-> data.sub, purpose |-> data.purpose, verifies |-> TRUE]

Issued(issuer) == {t.token : t \in {x \in tokens : x.issued_by = issuer}}

Presentable == {t.token : t \in tokens} \cup {Garbage}

(* Variant: the password is not verified. *)
authenticate_user_any_password(table, username, password) ==
    IF username \notin DOMAIN table THEN [ok |-> FALSE, users |-> table]
    ELSE IF table[username].is_locked THEN [ok |-> TRUE, users |-> table]
    ELSE [ok |-> TRUE,
          users |-> [table EXCEPT ![username].failed_login_attempts = 0]]

(* authenticate_user: ok is whether a user row is returned (the row of    *)
(* username); users is the table after the commit.                        *)
authenticate_user(table, username, password) ==
    IF username \notin DOMAIN table THEN [ok |-> FALSE, users |-> table]
    ELSE IF table[username].is_locked THEN [ok |-> TRUE, users |-> table]
    ELSE IF ~verify_password(password, table[username].hashed_password)
    THEN LET attempts == table[username].failed_login_attempts + 1
         IN  [ok |-> FALSE,
              users |-> [table EXCEPT
                            ![username].failed_login_attempts = attempts,
                            ![username].is_locked =
                                IF attempts >= LockThreshold THEN TRUE ELSE @]]
    ELSE [ok |-> TRUE,
          users |-> [table EXCEPT ![username].failed_login_attempts = 0]]

(* POST /auth/token *)
login(username, password) ==
    LET auth == authenticate_user(users, username, password)
        request == [username |-> username, password |-> password]
        refused(code) == [kind |-> "login", request |-> request, status |-> code,
                          body |-> [access_token |-> Garbage, token_type |-> "none"]]
    IN  /\ users' = auth.users
        /\ IF ~auth.ok
           THEN /\ response' =
                       IF username \in DOMAIN auth.users /\ auth.users[username].is_locked
                       THEN refused(403) ELSE refused(401)
                /\ UNCHANGED tokens
           ELSE IF auth.users[username].is_locked
           THEN /\ response' = refused(403)
                /\ UNCHANGED tokens
           ELSE LET access_token ==
                        create_access_token([sub |-> username, purpose |-> NoPurpose])
                IN  /\ tokens' = tokens \cup {[token |-> access_token, issued_by |-> "login"]}
                    /\ response' = [kind |-> "login", request |-> request, status |-> 200,
                                    body |-> [access_token |-> access_token,
                                              token_type |-> "bearer"]]
        /\ UNCHANGED <<store, settings, calls>>

(* Variant: the role of the request is stored. *)
register_user_requested_role(user_in) ==
    /\ IF user_in.username \in DOMAIN users
       THEN /\ response' = [kind |-> "signup", request |-> user_in, status |-> 400]
            /\ UNCHANGED users
       ELSE IF user_in.email # NoEmail /\ \E u \in DOMAIN users : users[u].email = user_in.email
       THEN /\ response' = [kind |-> "signup", request |-> user_in, status |-> 400]
            /\ UNCHANGED users
       ELSE /\ users' = [u \in DOMAIN users \cup {user_in.username} |->
                            IF u = user_in.username
                            THEN new_user(user_in.password, user_in.role, user_in.email)
                            ELSE users[u]]
            /\ response' = [kind |-> "signup", request |-> user_in, status |-> 200]
    /\ UNCHANGED <<store, settings, tokens, calls>>

(* POST /auth/signup *)
register_user(user_in) ==
    /\ IF user_in.username \in DOMAIN users
       THEN /\ response' = [kind |-> "signup", request |-> user_in, status |-> 400]
            /\ UNCHANGED users
       ELSE IF user_in.email # NoEmail /\ \E u \in DOMAIN users : users[u].email = user_in.email
       THEN /\ response' = [kind |-> "signup", request |-> user_in, status |-> 400]
            /\ UNCHANGED users
       ELSE /\ users' = [u \in DOMAIN users \cup {user_in.username} |->
                            IF u = user_in.username
                            THEN new_user(user_in.password, "user", user_in.email)
                            ELSE users[u]]
            /\ response' = [kind |-> "signup", request |-> user_in, status |-> 200]
    /\ UNCHANGED <<store, settings, tokens, calls>>

(* get_current_user: jwt.decode, the sub claim, the row of that user. *)
get_current_user(token) ==
    IF ~token.verifies THEN [status |-> 401, user |-> "<none>"]
    ELSE IF token.sub \notin DOMAIN users THEN [status |-> 401, user |-> "<none>"]
    ELSE [status |-> 200, user |-> token.sub]

(* admin_required *)
admin_required(token) ==
    LET current_user == get_current_user(token)
    IN  IF current_user.status # 200 THEN current_user
        ELSE IF users[current_user.user].role # "admin"
        THEN [status |-> 403, user |-> current_user.user]
        ELSE current_user

(* GET /auth/me, a protected route: the handler returns the current user. *)
read_users_me(token) ==
    /\ response' = [kind |-> "me", token |-> token,
                    status |-> get_current_user(token).status,
                    user |-> get_current_user(token).user]
    /\ UNCHANGED <<store, settings, users, tokens, calls>>

(* GET /auth/users, an admin-only route. *)
get_all_users(token) ==
    /\ response' = [kind |-> "users", token |-> token,
                    status |-> admin_required(token).status,
                    user |-> admin_required(token).user]
    /\ UNCHANGED <<store, settings, users, tokens, calls>>

(* POST /auth/password-reset-request: the token is part of the answer. *)
password_reset_request(email) ==
    /\ IF \E u \in DOMAIN users : users[u].email = email
       THEN LET u == CHOOSE u \in DOMAIN users : users[u].email = email
                reset_token == create_access_token([sub |-> u, purpose |-> "password_reset"])
            IN  /\ tokens' = tokens \cup {[token |-> reset_token,
                                           issued_by |-> "password_reset_request"]}
                /\ response' = [kind |-> "reset_request", email |-> email,
                                token |-> reset_token, status |-> 200]
       ELSE /\ response' = [kind |-> "reset_request", email |-> email,
                            token |-> Garbage, status |-> 404]
            /\ UNCHANGED tokens
    /\ UNCHANGED <<store, settings, users, calls>>

(* POST /auth/password-reset-confirm.  The handler starts with            *)
(* `from app.auth import SECRET_KEY, ALGORITHM`; app/auth.py defines       *)
(* neither name, so the import raises ImportError before the token is     *)
(* read and the request is answered 500 with the table untouched.         *)
password_reset_confirm(token, new_password) ==
    /\ response' = [kind |-> "reset_confirm", token |-> token,
                    new_password |-> new_password, status |-> 500]
    /\ UNCHANGED <<store, settings, users, tokens, calls>>

(***************************************************************************)
(* Maintenance mode (app/middleware/maintenance.py, settings_routes.py).   *)
(* A path is the sequence of the pieces it is written from, so that       *)
(* startswith compares text and not path segments: <<"/auth", "ors">> is   *)
(* the path /authors.                                                      *)
(***************************************************************************)
MAINTENANCE_MODE == <<"MAINTENANCE_MODE">>
PUBLIC_PATH_PREFIXES == <<(<<"/auth">>), <<"/docs">>, <<"/openapi.json">>, <<"/health">>>>
RootPath == <<"/">>
StrTrue == <<"t", "r", "u", "e">>
StrFalse == <<"f", "a", "l", "s", "e">>
NoHeader == [bearer |-> FALSE, token |-> Garbage]
Bearer(token) == [bearer |-> TRUE, token |-> token]

(* Lines 48-67: the setting is on and the bearer is not an admin. *)
maintenance_blocks(authorization) ==
    /\ MAINTENANCE_MODE \in DOMAIN settings
    /\ lower(settings[MAINTENANCE_MODE]) = StrTrue
    /\ ~(/\ authorization.bearer
         /\ authorization.token.verifies
         /\ authorization.token.sub \in DOMAIN users
         /\ users[authorization.token.sub].role = "admin")

(* Variant: the value is compared without lower(). *)
dispatch_case_sensitive(method, path, authorization) ==
    IF method = "OPTIONS" THEN "call_next"
    ELSE IF path = RootPath
            \/ \E i \in DOMAIN PUBLIC_PATH_PREFIXES : startswith(path, PUBLIC_PATH_PREFIXES[i])
    THEN "call_next"
    ELSE IF /\ MAINTENANCE_MODE \in DOMAIN settings
            /\ settings[MAINTENANCE_MODE] = StrTrue
            /\ maintenance_blocks(authorization)
    THEN "503"
    ELSE "call_next"

(* MaintenanceMiddleware.dispatch: "503", or "call_next" when the request *)
(* is handed on to the routes.                                            *)
dispatch(method, path, authorization) ==
    IF method = "OPTIONS" THEN "call_next"
    ELSE IF path = RootPath
            \/ \E i \in DOMAIN PUBLIC_PATH_PREFIXES : startswith(path, PUBLIC_PATH_PREFIXES[i])
    THEN "call_next"
    ELSE IF maintenance_blocks(authorization) THEN "503"
    ELSE "call_next"

(* A request as the middleware sees it. *)
request(method, path, authorization) ==
    /\ response' = [kind |-> "request", method |-> method, path |-> path,
                    authorization |-> authorization,
                    outcome |-> dispatch(method, path, authorization)]
    /\ UNCHANGED <<store, settings, users, tokens, calls>>

(* POST /settings/maintenance/toggle *)
toggle_maintenance_mode(token) ==
    /\ IF admin_required(token).status # 200
       THEN /\ response' = [kind |-> "toggle", token |-> token,
                            status |-> admin_required(token).status,
                            body |-> [maintenance_mode |-> <<>>]]
            /\ UNCHANGED settings
       ELSE LET value == IF MAINTENANCE_MODE \notin DOMAIN settings THEN StrTrue
                         ELSE IF lower(settings[MAINTENANCE_MODE]) = StrTrue THEN StrFalse
                         ELSE StrTrue
            IN  /\ settings' = [k \in DOMAIN settings \cup {MAINTENANCE_MODE} |->
                                   IF k = MAINTENANCE_MODE THEN value ELSE settings[k]]
                /\ response' = [kind |-> "toggle", token |-> token, status |-> 200,
                                body |-> [maintenance_mode |-> value]]
    /\ UNCHANGED <<store, users, tokens, calls>>

(***************************************************************************)
(* File upload (app/routers/file_routes.py).                               *)
(* An uploaded file is its name, its size in MB, whether pandas can read   *)
(* it, the header it was read with and its rows.  A row holds its cells    *)
(* under the role of the column (Date, Fleet, Amount) whatever the header  *)
(* calls it; a Date cell that does not parse and an Amount cell that is    *)
(* not a number are marked as such.  Headers in which two columns map to   *)
(* the same required name are left out.                                    *)
(***************************************************************************)
ColDate == <<"D", "a", "t", "e">>
ColFleet == <<"F", "l", "e", "e", "t">>
ColAmount == <<"A", "m", "o", "u", "n", "t">>
REQUIRED_COLUMNS == {ColDate, ColFleet, ColAmount}
ALLOWED_EXTENSIONS == {<<".", "c", "s", "v">>, <<".", "x", "l", "s", "x">>}
MAX_FILE_SIZE == 10
NaT == 0 - 1

(* The entries of COLUMN_MAPPING that the headers of the model can hit. *)
COLUMN_MAPPING ==
    [alias \in {<<"d", "a", "t", "e">>, <<"b", "u", "s">>, <<"f", "l", "e", "e", "t">>,
                <<"t", "o", "t", "a", "l">>, <<"a", "m", "o", "u", "n", "t">>} |->
        IF alias = <<"d", "a", "t", "e">> THEN ColDate
        ELSE IF alias \in {<<"b", "u", "s">>, <<"f", "l", "e", "e", "t">>} THEN ColFleet
        ELSE ColAmount]

(* filename.split('.')[-1] *)
RECURSIVE last_piece(_)
last_piece(s) == IF "." \in Range(s) THEN last_piece(Tail(s)) ELSE s

file_ext(filename) ==
    <<".">> \o (IF "." \in Range(filename) THEN last_piece(lower(filename)) ELSE <<>>)

(* df.rename(columns=col_map) *)
rename_columns(columns) ==
    [k \in DOMAIN columns |->
        IF strip(lower(columns[k])) \in DOMAIN COLUMN_MAPPING
        THEN COLUMN_MAPPING[strip(lower(columns[k]))]
        ELSE columns[k]]

(* Lines 107-115: coerce, normalize, drop the rows without a date. *)
clean_rows(rows) ==
    LET cleaned == [k \in DOMAIN rows |->
                       [date |-> IF rows[k].Date.parses THEN rows[k].Date.day ELSE NaT,
                        fleet |-> LET f == upper(strip(rows[k].Fleet))
                                  IN  IF f = <<"2", "0", "1", "0", "M">>
                                      THEN <<"2", "0", "1", "0">> ELSE f,
                        amount |-> IF rows[k].Amount.numeric THEN rows[k].Amount.value
                                   ELSE 0]]
    IN  SelectSeq(cleaned, LAMBDA row : row.date # NaT)

Rejected(reason) == [accepted |-> FALSE, error |-> reason, rows |-> <<>>]

(* Variant: the size of the content is not checked. *)
process_file_any_size(file) ==
    IF file_ext(file.filename) \notin ALLOWED_EXTENSIONS THEN Rejected("Invalid file type")
    ELSE IF ~file.readable THEN Rejected("Error reading file")
    ELSE IF file.rows = <<>> THEN Rejected("File is empty")
    ELSE IF REQUIRED_COLUMNS \ Range(rename_columns(file.columns)) # {}
    THEN Rejected("Missing required columns")
    ELSE [accepted |-> TRUE, error |-> "", rows |-> clean_rows(file.rows)]

(* One iteration of the loop over the files: the error appended, or the   *)
(* rows added to the session.                                             *)
process_file(file) ==
    IF file_ext(file.filename) \notin ALLOWED_EXTENSIONS THEN Rejected("Invalid file type")
    ELSE IF file.size > MAX_FILE_SIZE THEN Rejected("Size exceeds limit")
    ELSE IF ~file.readable THEN Rejected("Error reading file")
    ELSE IF file.rows = <<>> THEN Rejected("File is empty")
    ELSE IF REQUIRED_COLUMNS \ Range(rename_columns(file.columns)) # {}
    THEN Rejected("Missing required columns")
    ELSE [accepted |-> TRUE, error |-> "", rows |-> clean_rows(file.rows)]

(* POST /files/upload *)
upload_files(files) ==
    /\ IF files = <<>>
       THEN /\ response' = [kind |-> "upload", files |-> files, status |-> 400,
                            message |-> "No files provided"]
            /\ UNCHANGED store
       ELSE \E outcomes \in {[k \in DOMAIN files |-> process_file(files[k])]} :
            \E added \in {Flatten([k \in DOMAIN files |-> outcomes[k].rows])} :
            LET errors == SelectSeq([k \in DOMAIN files |-> outcomes[k].error],
                                    LAMBDA e : e # "")
                files_processed == Cardinality({k \in DOMAIN files : outcomes[k].accepted})
                import_stats == [files_processed |-> files_processed,
                                 records_imported |-> Len(added),
                                 errors |-> errors]
            IN  IF files_processed = 0 /\ errors # <<>>
                THEN /\ response' = [kind |-> "upload", files |-> files, status |-> 400,
                                     message |-> "Import failed", stats |-> import_stats]
                     /\ UNCHANGED store
                ELSE /\ store' = store \o
                            [k \in DOMAIN added |->
                                [id |-> Len(store) + k, date |-> added[k].date,
                                 fleet |-> added[k].fleet, amount |-> added[k].amount]]
                     /\ response' = [kind |-> "upload", files |-> files, status |-> 200,
                                     message |-> "Upload processing complete",
                                     stats |-> import_stats]
    /\ UNCHANGED <<settings, users, tokens, calls>>

(***************************************************************************)
(* Inputs.                                                                 *)
(***************************************************************************)
F1001 == <<"1", "0", "0", "1">>
F2002 == <<"2", "0", "0", "2">>
F2010m == <<" ", "2", "0", "1", "0", "m">>

RawFleets == {F1001, F2002, F2010m}
Dates == {1, 2}
Amounts == {500, 1000}

Key1 == rate_key(<<"1">>)
Key2 == rate_key(<<"2">>)
KeyEmpty == rate_key(<<>>)

V50 == <<"5", "0">>
Vabc == <<"a", "b", "c">>
Vneg5 == <<"-", "5">>
V87p5 == <<" ", "8", "7", ".", "5", " ">>
Vempty == <<>>

Init ==
    /\ store = <<>>
    /\ settings = EmptyDict
    /\ response = NoResponse
    /\ users = SeedUsers
    /\ tokens = {}
    /\ calls = NoCalls

Next ==
    \/ \E d \in Dates, f \in RawFleets, a \in Amounts :
           /\ Len(store) < MaxRecords
           /\ create_record([date |-> d, fleet |-> f, amount |-> a])
    \/ \E v \in {V50, Vabc} : update_setting(Key1, v)
    \/ get_analytics_summary

Spec == Init /\ [][Next]_vars

(* The same records and settings, reported as a workbook. *)
NextReport ==
    \/ \E d \in Dates, f \in RawFleets, a \in Amounts :
           /\ Len(store) < MaxRecords
           /\ create_record([date |-> d, fleet |-> f, amount |-> a])
    \/ \E v \in {V50, Vabc} : update_setting(Key1, v)
    \/ download_excel_report

SpecReport == Init /\ [][NextReport]_vars

(* The resolver alone, over fleet codes and configurations. *)
RemitCodes ==
    {F1001, <<" ", "1", "0", "0", "1", " ">>, <<"2", "0", "0", "5">>,
     <<"9", "9", "9", "9">>, <<"b", "1">>, <<>>, <<" ">>}
RemitKeys == {Key1, Key2, KeyEmpty}
RemitValues == {V50, Vabc, Vneg5, V87p5, Vempty}
Revenues == (0..MaxRevenue) \cup {1000}
Configs ==
    {None} \cup {Dict(f) : f \in UNION {[K -> RemitValues] : K \in SUBSET RemitKeys}}

NextRemit ==
    /\ response = NoResponse
    /\ \E revenue \in Revenues, code \in RemitCodes, config \in Configs :
           resolve(revenue, code, config)

SpecRemit == Init /\ [][NextRemit]_vars

(* The anomaly detector: a store seeded with a few records of fleet B, to  *)
(* which one record of fleet A is added per day.                           *)
FleetA == <<"A">>
FleetB == <<"B">>
AnomalyAmounts == {10, 100}

SeedAmount(i) == IF i % 2 = 1 THEN 10 ELSE 100

SeedStores ==
    {[i \in 1..n |-> [id |-> i, date |-> i, fleet |-> FleetB, amount |-> SeedAmount(i)]] :
     n \in 0..MaxSeed}

InitAnomaly ==
    /\ store \in SeedStores
    /\ settings = EmptyDict
    /\ response = NoResponse
    /\ users = SeedUsers
    /\ tokens = {}
    /\ calls = NoCalls

NextAnomaly ==
    \/ \E a \in AnomalyAmounts :
           /\ Len(FleetRows(store, FleetA)) < MaxFleetRecords
           /\ create_record([date |-> Len(store) + 1, fleet |-> FleetA, amount |-> a])
    \/ get_analytics_summary

SpecAnomaly == InitAnomaly /\ [][NextAnomaly]_vars

(* Raw labels of two fleets, written in several ways, over a store that    *)
(* already holds records of one of them, enough for the anomaly scan.      *)
F2010 == <<"2", "0", "1", "0">>
F2010M == <<"2", "0", "1", "0", "M">>
Fb1 == <<"b", "1">>
FB1 == <<"B", "1", " ">>

NormFleets == {F2010, F2010M, F2010m, Fb1, FB1}

NormSeedFleet(i) == IF i % 2 = 1 THEN Fb1 ELSE FB1

NormSeedStores ==
    {[i \in 1..n |-> [id |-> i, date |-> 1, fleet |-> NormSeedFleet(i), amount |-> 10]] :
     n \in {0, MaxNormSeed}}

(* The records created since Init; the seed is longer than what is added. *)
AddedToSeed == IF Len(store) >= MaxNormSeed THEN Len(store) - MaxNormSeed ELSE Len(store)

InitNorm ==
    /\ store \in NormSeedStores
    /\ settings = EmptyDict
    /\ response = NoResponse
    /\ users = SeedUsers
    /\ tokens = {}
    /\ calls = NoCalls

NextNorm ==
    \/ \E d \in Dates, f \in NormFleets, a \in AnomalyAmounts :
           /\ AddedToSeed < MaxNormRecords
           /\ create_record([date |-> d, fleet |-> f, amount |-> a])
    \/ get_analytics_summary
    \/ aggregate_twice

SpecNorm == InitNorm /\ [][NextNorm]_vars

(* The trend: records of one fleet on dates at and around the ends of the  *)
(* two windows (with the latest date 16: 9 and 2 are the first days of the *)
(* last and of the previous window, 1 lies before both).                   *)
TrendDates == {1, 2, 9, 10, 16}
TrendAmounts == {0, 100, 200}

NextTrend ==
    \/ \E d \in TrendDates, a \in TrendAmounts :
           /\ Len(store) < MaxTrendRecords
           /\ create_record([date |-> d, fleet |-> F1001, amount |-> a])
    \/ get_analytics_summary

SpecTrend == Init /\ [][NextTrend]_vars

(* A run of consecutive days.  The days of the seed hold one record of    *)
(* each of two fleets (60 + 40, a daily total of 100); each later day      *)
(* holds one record of 100 or 200.                                         *)
DayAmounts == {100, 200}

SeedDay(i) == (i + 1) \div 2

FortnightSeeds ==
    {[i \in 1..(2 * n) |->
         [id |-> i, date |-> SeedDay(i),
          fleet |-> IF i % 2 = 1 THEN F1001 ELSE F2002,
          amount |-> IF i % 2 = 1 THEN 60 ELSE 40]] :
     n \in {0, MaxSeedDays}}

LastDay == IF store = <<>> THEN 0 ELSE store[Len(store)].date

AddedDays ==
    IF Len(store) >= 2 * MaxSeedDays THEN Len(store) - 2 * MaxSeedDays ELSE Len(store)

InitFortnight ==
    /\ store \in FortnightSeeds
    /\ settings = EmptyDict
    /\ response = NoResponse
    /\ users = SeedUsers
    /\ tokens = {}
    /\ calls = NoCalls

NextFortnight ==
    \/ \E a \in DayAmounts :
           /\ AddedDays < MaxAddedDays
           /\ create_record([date |-> LastDay + 1, fleet |-> F1001, amount |-> a])
    \/ get_analytics_summary
    \/ get_dashboard_stats

SpecFortnight == InitFortnight /\ [][NextFortnight]_vars

(***************************************************************************)
(* Accounts: the seeded admin, one more username that may sign up, two     *)
(* passwords, and whatever tokens the endpoints have handed out.           *)
(***************************************************************************)
Usernames == {"admin", "alice"}
Passwords == {"admin123", "secret1"}
Roles == {"user", "admin"}
AliceEmail == "alice@fleet"
OtherEmail == "bob@fleet"

NextAuth ==
    \/ \E u \in Usernames, p \in Passwords, r \in Roles, e \in {NoEmail, AliceEmail} :
           register_user([password |-> p, role |-> r, email |-> e, username |-> u])
    \/ \E u \in Usernames, p \in Passwords : login(u, p)
    \/ \E t \in Presentable : read_users_me(t)
    \/ \E t \in Presentable : get_all_users(t)
    \/ \E e \in {AliceEmail, OtherEmail} : password_reset_request(e)
    \/ \E t \in Presentable, p \in Passwords : password_reset_confirm(t, p)

SpecAuth == Init /\ [][NextAuth]_vars

(***************************************************************************)
(* Maintenance: the admin and one signed-up user log in; an admin writes   *)
(* or toggles MAINTENANCE_MODE; requests of every kind arrive.             *)
(***************************************************************************)
StrTRUE == <<"T", "R", "U", "E">>
Methods == {"GET", "OPTIONS"}
Paths == {RootPath, <<"/auth", "/token">>, <<"/auth", "ors">>, <<"/health">>,
          <<"/analytics", "/summary">>, <<"/settings", "/">>, <<"/fleet", "/auth">>}
Credentials == {[username |-> "admin", password |-> "admin123"],
                [username |-> "alice", password |-> "secret1"]}
Authorizations == {NoHeader} \cup {Bearer(t) : t \in Presentable}

NextMaint ==
    \/ register_user([password |-> "secret1", role |-> "user", email |-> NoEmail,
                      username |-> "alice"])
    \/ \E c \in Credentials : login(c.username, c.password)
    \/ \E v \in {StrTRUE, StrFalse, Vabc} : update_setting(MAINTENANCE_MODE, v)
    \/ \E t \in Presentable : toggle_maintenance_mode(t)
    \/ \E m \in Methods, p \in Paths, a \in Authorizations : request(m, p, a)

SpecMaint == Init /\ [][NextMaint]_vars

(***************************************************************************)
(* Uploads: a few files of each kind, sent one or two at a time, beside    *)
(* records created one by one; both analytics endpoints read the result.   *)
(***************************************************************************)
NameCsv == <<"a", ".", "c", "s", "v">>
NameXlsx == <<"b", ".", "a", ".", "X", "L", "S", "X">>
NameTxt == <<"a", ".", "t", "x", "t">>
NameBare == <<"c", "s", "v">>

Day(d) == [parses |-> TRUE, day |-> d]
BadDate == [parses |-> FALSE, day |-> 0]
Num(v) == [numeric |-> TRUE, value |-> v]
BadNum == [numeric |-> FALSE, value |-> 0]

PlainHeader == <<ColDate, ColFleet, ColAmount>>
AliasHeader == <<(<<" ", "D", "A", "T", "E">>), <<"B", "u", "s">>, <<"t", "o", "t", "a", "l", " ">>>>
ShortHeader == <<ColDate, ColFleet>>

RowsA == <<[Date |-> Day(1), Fleet |-> F2010m, Amount |-> Num(500)],
           [Date |-> BadDate, Fleet |-> F1001, Amount |-> Num(1000)]>>
RowsB == <<[Date |-> Day(2), Fleet |-> Fb1, Amount |-> BadNum],
           [Date |-> Day(2), Fleet |-> F1001, Amount |-> Num(1000)]>>
RowsUndated == <<[Date |-> BadDate, Fleet |-> F1001, Amount |-> Num(500)]>>

File(filename, size, readable, columns, rows) ==
    [filename |-> filename, size |-> size, readable |-> readable,
     columns |-> columns, rows |-> rows]

GoodFiles == {File(NameCsv, 1, TRUE, PlainHeader, RowsA),
              File(NameXlsx, 1, TRUE, AliasHeader, RowsB),
              File(NameCsv, 1, TRUE, PlainHeader, RowsUndated)}
BadFiles == {File(NameTxt, 1, TRUE, PlainHeader, RowsA),
             File(NameBare, 1, TRUE, PlainHeader, RowsA),
             File(NameCsv, MAX_FILE_SIZE + 1, TRUE, PlainHeader, RowsA),
             File(NameCsv, 1, FALSE, PlainHeader, RowsA),
             File(NameCsv, 1, TRUE, PlainHeader, <<>>),
             File(NameCsv, 1, TRUE, ShortHeader, RowsA)}
Uploads ==
    UNION {[1..n -> GoodFiles \cup BadFiles] : n \in 0..MaxFiles}

NextUpload ==
    \/ \E files \in Uploads :
           /\ Len(store) < MaxUploadStore
           /\ upload_files(files)
    \/ \E f \in {Fb1, FB1}, a \in Amounts :
           /\ Len(store) < MaxUploadStore
           /\ create_record([date |-> 1, fleet |-> f, amount |-> a])
    \/ get_analytics_summary
    \/ get_dashboard_stats

SpecUpload == Init /\ [][NextUpload]_vars

(***************************************************************************)
(* Overlapping requests: every caller sends one analytics request, a       *)
(* summary or a download, while records are created and the rate of the    *)
(* 1xxx series is set.                                                     *)
(***************************************************************************)
NextShared ==
    \/ /\ Len(store) < MaxSharedRecords
       /\ create_record([date |-> 1, fleet |-> F1001, amount |-> 1000])
    \/ update_setting(Key1, V50)
    \/ \E c \in Callers, op \in {"summary", "download"} : query_all(c, op)
    \/ \E c \in Callers : build_frame(c)
    \/ \E c \in Callers : aggregate(c)
    \/ \E c \in Callers : finish_analytics(c)
    \/ \E c \in Callers : run_generate_excel(c)
    \/ \E c \in Callers : return_response(c)

SpecShared == Init /\ [][NextShared]_vars

(***************************************************************************)
(* Properties of the Remittance Rule Resolver (under SpecRemit).           *)
(***************************************************************************)
IsCall == response.kind = "remittance"

(* The first character of the trimmed code, as a string of length 0 or 1. *)
FirstChar(code) ==
    LET visible == SelectSeq(code, LAMBDA c : c # " ")
    IN  IF visible = <<>> THEN <<>> ELSE <<visible[1]>>

HasEntry(config, code) ==
    /\ ~config.is_none
    /\ (<<"REMITTANCE_">> \o FirstChar(code)) \in DOMAIN config.items

EntryOf(config, code) == config.items[<<"REMITTANCE_">> \o FirstChar(code)]

(* What Python's float() makes of the value strings drawn, in tenths;     *)
(* "abc" and "" raise ValueError.                                         *)
NumericValues == {V50, Vneg5, V87p5}

TenthsOf(value) ==
    IF value = V50 THEN 500 ELSE IF value = Vneg5 THEN 0 - 50 ELSE 875

ExpectedDefault(revenue, code) ==
    IF FirstChar(code) = <<"1">> THEN revenue * 840
    ELSE IF FirstChar(code) = <<"2">> THEN revenue * 875
    ELSE revenue * 1000

(* C3: without a configuration entry for the first character of the       *)
(* trimmed fleet code (config None, empty, or lacking the key), the       *)
(* resolver returns revenue * 0.84 for codes starting with "1",           *)
(* revenue * 0.875 for codes starting with "2" and the revenue unchanged  *)
(* for all other codes, the empty code included.                          *)
C3_DefaultRates ==
    IsCall /\ ~HasEntry(response.config, response.fleet_code)
        => response.ret = Return(ExpectedDefault(response.revenue, response.fleet_code))

C3_Witness ==
    /\ IsCall
    /\ response.revenue = 1000
    /\ response.fleet_code = <<" ", "1", "0", "0", "1", " ">>
    /\ response.config = Dict([k \in {Key2} |-> V50])
    /\ response.ret.value = 840000

(* C4: the override revenue * (value / 100) is returned exactly when the  *)
(* config holds the key "REMITTANCE_" + first character of the trimmed    *)
(* code with a numeric value; with the key missing or its value not       *)
(* numeric the default of the code's prefix is returned, and no call      *)
(* raises.                                                                 *)
C4_OverrideOrDefault ==
    IsCall =>
        /\ ~response.ret.raised
        /\ response.ret.value =
              IF /\ HasEntry(response.config, response.fleet_code)
                 /\ EntryOf(response.config, response.fleet_code) \in NumericValues
              THEN response.revenue * TenthsOf(EntryOf(response.config, response.fleet_code))
              ELSE ExpectedDefault(response.revenue, response.fleet_code)

C4_Witness ==
    /\ IsCall
    /\ response.revenue = 1000
    /\ response.fleet_code = F1001
    /\ response.config = Dict([k \in {Key1} |-> Vabc])
    /\ response.ret = Return(840000)

(* C5: for every fleet code and every configuration, a call with          *)
(* revenue >= 0 returns a value >= 0 and does not fail.                   *)
C5_NonNegative ==
    IsCall /\ response.revenue >= 0
        => ~response.ret.raised /\ response.ret.value >= 0

(***************************************************************************)
(* Properties of the Aggregator (under Spec).  The response of             *)
(* GET /analytics/summary is compared with the table it was computed from. *)
(***************************************************************************)
IsAnalytics == response.kind = "analytics"

RECURSIVE AmountOver(_)
AmountOver(ids) ==
    IF ids = {} THEN 0
    ELSE LET i == CHOOSE j \in ids : TRUE
         IN  store[i].amount + AmountOver(ids \ {i})

RECURSIVE Total(_, _)
Total(rows, field) ==
    IF rows = <<>> THEN 0 ELSE rows[1][field] + Total(Tail(rows), field)

IdsOfFleet(fleet) == {i \in DOMAIN store : normalize_fleet(store[i].fleet) = fleet}

IdsOfDay(date, fleet) == {i \in IdsOfFleet(fleet) : store[i].date = date}

FleetCodes == {normalize_fleet(store[i].fleet) : i \in DOMAIN store}

DayKeys == {<<store[i].date, normalize_fleet(store[i].fleet)>> : i \in DOMAIN store}

(* C1: for a non-empty record set the fleet totals, the daily totals and  *)
(* total_revenue all add up to the sum of the input amounts.              *)
C1_TotalsReconcile ==
    IsAnalytics /\ store # <<>> =>
        /\ Total(response.body.fleet_summaries, "total_amount") = AmountOver(DOMAIN store)
        /\ Total(response.body.daily_subtotals, "daily_total") = AmountOver(DOMAIN store)
        /\ response.body.dashboard_stats.total_revenue = AmountOver(DOMAIN store)

C1_Witness ==
    /\ IsAnalytics
    /\ Len(response.body.fleet_summaries) = 2
    /\ Len(response.body.daily_subtotals) = 3
    /\ response.body.dashboard_stats.total_revenue = 2500
    /\ Total(response.body.daily_subtotals, "daily_total") = 2500

(* C2: for every record set, the empty one included, the record counts of *)
(* the fleet summaries add up to total_records, the number of records.    *)
C2_CountsReconcile ==
    IsAnalytics =>
        /\ Total(response.body.fleet_summaries, "record_count") = Len(store)
        /\ response.body.dashboard_stats.total_records = Len(store)

C2_Witness ==
    /\ IsAnalytics
    /\ Len(store) = 3
    /\ Len(response.body.fleet_summaries) = 2
    /\ \E i, j \in DOMAIN store :
           i # j /\ store[i].fleet = store[j].fleet /\ store[i].amount = store[j].amount

(* C9: fleet_summaries holds exactly one summary per distinct normalized  *)
(* fleet code of the records, with that fleet's summed amount, its number *)
(* of records and calculate_remittance(total_amount, fleet, config).      *)
C9_FleetSummaries ==
    IsAnalytics =>
        LET fs == response.body.fleet_summaries
        IN  /\ {fs[k].fleet : k \in DOMAIN fs} = FleetCodes
            /\ Len(fs) = Cardinality(FleetCodes)
            /\ \A k \in DOMAIN fs :
                   /\ fs[k].total_amount = AmountOver(IdsOfFleet(fs[k].fleet))
                   /\ fs[k].record_count = Cardinality(IdsOfFleet(fs[k].fleet))
                   /\ fs[k].remittance =
                          calculate_remittance(AmountOver(IdsOfFleet(fs[k].fleet)),
                                               fs[k].fleet, Dict(settings)).value

C9_Witness ==
    /\ IsAnalytics
    /\ settings = EmptyDict
    /\ {[date |-> store[i].date, fleet |-> store[i].fleet, amount |-> store[i].amount] :
            i \in DOMAIN store}
         = {[date |-> 1, fleet |-> F1001, amount |-> 1000],
            [date |-> 1, fleet |-> F2002, amount |-> 500],
            [date |-> 2, fleet |-> F1001, amount |-> 1000]}
    /\ response.body.fleet_summaries =
         <<[fleet |-> F1001, total_amount |-> 2000, record_count |-> 2, remittance |-> 1680000],
           [fleet |-> F2002, total_amount |-> 500, record_count |-> 1, remittance |-> 437500]>>

(* C10: daily_subtotals holds exactly one row per (date, normalized       *)
(* fleet) pair of the records, none with pax 0, with the pair's summed    *)
(* amount and number of records, in strictly ascending (date, fleet)      *)
(* order whatever the order of the input.                                 *)
CodeNumber(fleet) == DecimalValue(fleet)

C10_DailySubtotals ==
    IsAnalytics =>
        LET ds == response.body.daily_subtotals
        IN  /\ {<<ds[k].date, ds[k].fleet>> : k \in DOMAIN ds} = DayKeys
            /\ Len(ds) = Cardinality(DayKeys)
            /\ \A k \in DOMAIN ds :
                   /\ ds[k].pax >= 1
                   /\ ds[k].pax = Cardinality(IdsOfDay(ds[k].date, ds[k].fleet))
                   /\ ds[k].daily_total = AmountOver(IdsOfDay(ds[k].date, ds[k].fleet))
            /\ \A k \in 1..(Len(ds) - 1) :
                   \/ ds[k].date < ds[k + 1].date
                   \/ /\ ds[k].date = ds[k + 1].date
                      /\ CodeNumber(ds[k].fleet) < CodeNumber(ds[k + 1].fleet)

C10_Witness ==
    /\ IsAnalytics
    /\ Len(response.body.daily_subtotals) = 3
    /\ response.body.records[1].date = 2
    /\ response.body.records[1].fleet = F2002
    /\ response.body.records[2].fleet = F1001
    /\ response.body.records[2].date = 2
    /\ response.body.daily_subtotals[1].date = 1
    /\ response.body.daily_subtotals[2].fleet = F1001
    /\ response.body.daily_subtotals[3].fleet = F2002

(***************************************************************************)
(* Properties of the Anomaly Detector (under SpecAnomaly, where every      *)
(* record has a date of its own, so that an anomaly names its record).     *)
(*                                                                         *)
(* For n amounts of sum S and sum of squares Q the sample variance is      *)
(* (n*Q - S*S) / (n*(n-1)), so z > k for an amount x exactly when          *)
(* (n*x - S)^2 * (n-1) > k*k * n * (n*Q - S*S).                            *)
(***************************************************************************)
RECURSIVE SquaresOver(_)
SquaresOver(ids) ==
    IF ids = {} THEN 0
    ELSE LET i == CHOOSE j \in ids : TRUE
         IN  store[i].amount * store[i].amount + SquaresOver(ids \ {i})

ZAbove(i, ids, k) ==
    LET n == Cardinality(ids)
        S == AmountOver(ids)
        Q == SquaresOver(ids)
    IN  (n * store[i].amount - S) * (n * store[i].amount - S) * (n - 1)
            > k * k * n * (n * Q - S * S)

AllEqual(ids) == \A i, j \in ids : store[i].amount = store[j].amount

(* The anomalies reported for record i with the given severity. *)
Reports(i, severity) ==
    {k \in DOMAIN response.body.anomalies :
        /\ response.body.anomalies[k].date = store[i].date
        /\ response.body.anomalies[k].fleet = normalize_fleet(store[i].fleet)
        /\ response.body.anomalies[k].amount = store[i].amount
        /\ response.body.anomalies[k].severity = severity}

ReportsOfFleet(fleet) ==
    {k \in DOMAIN response.body.anomalies : response.body.anomalies[k].fleet = fleet}

(* C6: no anomaly is reported for a record of a fleet that has fewer than *)
(* 5 records, whatever the spread of its amounts.                         *)
C6_SmallFleetsSilent ==
    IsAnalytics =>
        \A k \in DOMAIN response.body.anomalies :
            Cardinality(IdsOfFleet(response.body.anomalies[k].fleet)) >= 5

C6_Witness ==
    /\ IsAnalytics
    /\ Cardinality(IdsOfFleet(FleetB)) = 3
    /\ ~AllEqual(IdsOfFleet(FleetB))
    /\ ReportsOfFleet(FleetB) = {}
    /\ ReportsOfFleet(FleetA) # {}

(* C7: in a fleet of at least 5 records whose amounts are not all equal,  *)
(* a record is reported once with severity "high" iff its z is above 3,   *)
(* once with severity "medium" iff 2 < z <= 3, and not at all iff         *)
(* z <= 2; a fleet whose amounts are all equal yields no anomaly.         *)
C7_Thresholds ==
    IsAnalytics =>
        /\ \A k \in DOMAIN response.body.anomalies :
               /\ response.body.anomalies[k].severity \in {"high", "medium"}
               /\ \E i \in DOMAIN store :
                      k \in Reports(i, response.body.anomalies[k].severity)
        /\ \A fleet \in FleetCodes :
               LET ids == IdsOfFleet(fleet)
               IN  Cardinality(ids) >= 5 =>
                       IF AllEqual(ids) THEN ReportsOfFleet(fleet) = {}
                       ELSE \A i \in ids :
                               /\ Cardinality(Reports(i, "high")) =
                                      IF ZAbove(i, ids, 3) THEN 1 ELSE 0
                               /\ Cardinality(Reports(i, "medium")) =
                                      IF ZAbove(i, ids, 2) /\ ~ZAbove(i, ids, 3) THEN 1 ELSE 0

C7_Witness ==
    /\ IsAnalytics
    /\ \E k \in DOMAIN response.body.anomalies :
           response.body.anomalies[k].severity = "high"

(* C8: when a fleet's records are six equal amounts and one differing     *)
(* amount, exactly the differing record is flagged, and a second fleet    *)
(* with only 3 records contributes no anomaly.                            *)
C8_SingleOutlier ==
    IsAnalytics /\ Cardinality(IdsOfFleet(FleetB)) = 3 =>
        LET ids == IdsOfFleet(FleetA)
        IN  \A odd \in ids :
                (Cardinality(ids) = 7 /\ AllEqual(ids \ {odd}) /\ ~AllEqual(ids))
                    => /\ Len(response.body.anomalies) = 1
                       /\ response.body.anomalies[1].fleet = FleetA
                       /\ response.body.anomalies[1].date = store[odd].date
                       /\ response.body.anomalies[1].amount = store[odd].amount

C8_Witness ==
    /\ IsAnalytics
    /\ Cardinality(IdsOfFleet(FleetB)) = 3
    /\ Cardinality(IdsOfFleet(FleetA)) = 7
    /\ Cardinality({i \in IdsOfFleet(FleetA) : store[i].amount = 10}) = 6
    /\ Len(response.body.anomalies) = 1
    /\ response.body.anomalies[1].amount = 100
    /\ response.body.anomalies[1].severity = "medium"

(* C30: a z-score in a fleet of n records is at most (n-1)/sqrt(n), so a  *)
(* fleet of exactly 5 records yields no anomaly, an anomaly belongs to a  *)
(* fleet of at least 6 records, severity "high" to a fleet of at least    *)
(* 11 records, and severity "low" is never emitted.                       *)
C30_SampleBound ==
    IsAnalytics =>
        /\ \A fleet \in FleetCodes :
               Cardinality(IdsOfFleet(fleet)) = 5 => ReportsOfFleet(fleet) = {}
        /\ \A k \in DOMAIN response.body.anomalies :
               LET a == response.body.anomalies[k]
                   n == Cardinality(IdsOfFleet(a.fleet))
               IN  /\ a.severity # "low"
                   /\ n >= 6
                   /\ (a.severity = "high" => n >= 11)
                   /\ \E i \in IdsOfFleet(a.fleet) :
                          /\ store[i].date = a.date
                          /\ (n * store[i].amount - AmountOver(IdsOfFleet(a.fleet)))
                                 * (n * store[i].amount - AmountOver(IdsOfFleet(a.fleet)))
                             <= (n - 1) * (n * SquaresOver(IdsOfFleet(a.fleet))
                                           - AmountOver(IdsOfFleet(a.fleet))
                                             * AmountOver(IdsOfFleet(a.fleet)))

(* Answers to a summary over a 5-record fleet of unequal amounts exist,   *)
(* and so does a "high" report in a fleet of 11 records.                  *)
C30_Witness ==
    /\ IsAnalytics
    /\ Cardinality(IdsOfFleet(FleetA)) = 11
    /\ \E k \in ReportsOfFleet(FleetA) : response.body.anomalies[k].severity = "high"

C30_WitnessFive ==
    /\ IsAnalytics
    /\ Cardinality(IdsOfFleet(FleetA)) = 5
    /\ ~AllEqual(IdsOfFleet(FleetA))
    /\ response.body.anomalies = <<>>

(***************************************************************************)
(* Properties of the normalization of fleet codes (under SpecNorm).        *)
(***************************************************************************)
IsNormalized(fleet) ==
    /\ fleet # <<>> => fleet[1] # " " /\ fleet[Len(fleet)] # " "
    /\ \A i \in DOMAIN fleet : fleet[i] \notin Range(LowerCase)
    /\ fleet # <<"2", "0", "1", "0", "M">>

(* The fleet each raw label drawn stands for. *)
CanonicalOf(raw) ==
    IF raw \in {F2010, F2010M, F2010m} THEN <<"2", "0", "1", "0">> ELSE <<"B", "1">>

IdsOfCanonical(fleet) == {i \in DOMAIN store : CanonicalOf(store[i].fleet) = fleet}

OutputFleets ==
    {response.body.records[k].fleet : k \in DOMAIN response.body.records}
    \cup {response.body.fleet_summaries[k].fleet : k \in DOMAIN response.body.fleet_summaries}
    \cup {response.body.daily_subtotals[k].fleet : k \in DOMAIN response.body.daily_subtotals}
    \cup {response.body.anomalies[k].fleet : k \in DOMAIN response.body.anomalies}

(* C11: every fleet code in the records, fleet summaries, daily subtotals *)
(* and anomalies of the output is trimmed, uppercased and has "2010M"     *)
(* replaced by "2010"; raw labels that differ only in surrounding         *)
(* whitespace, letter case or the 2010M alias share one fleet summary,    *)
(* and normalizing a normalized code returns it unchanged.                *)
C11_Normalized ==
    IsAnalytics =>
        LET fs == response.body.fleet_summaries
        IN  /\ \A fleet \in OutputFleets :
                   IsNormalized(fleet) /\ normalize_fleet(fleet) = fleet
            /\ {fs[k].fleet : k \in DOMAIN fs} = {CanonicalOf(store[i].fleet) : i \in DOMAIN store}
            /\ \A j, k \in DOMAIN fs : fs[j].fleet = fs[k].fleet => j = k
            /\ \A k \in DOMAIN fs :
                   fs[k].record_count = Cardinality(IdsOfCanonical(fs[k].fleet))
            /\ \A k \in DOMAIN response.body.records :
                   \E i \in DOMAIN store :
                       /\ response.body.records[k].id = store[i].id
                       /\ response.body.records[k].fleet = CanonicalOf(store[i].fleet)

C11_Witness ==
    /\ IsAnalytics
    /\ \E i, j, k \in DOMAIN store :
           store[i].fleet = Fb1 /\ store[j].fleet = FB1 /\ store[k].fleet = F2010M
    /\ Len(response.body.fleet_summaries) = 2
    /\ response.body.fleet_summaries[1].fleet = F2010
    /\ response.body.fleet_summaries[1].record_count = 1
    /\ response.body.fleet_summaries[2].fleet = <<"B", "1">>
    /\ response.body.fleet_summaries[2].record_count = MaxNormSeed + 1
    /\ Len(response.body.anomalies) = 1
    /\ response.body.anomalies[1].fleet = <<"B", "1">>

(***************************************************************************)
(* Properties of the dashboard statistics of the Aggregator (under Spec).  *)
(***************************************************************************)
TopFleet == response.body.dashboard_stats.top_performing_fleet

Trend == response.body.dashboard_stats.revenue_trend_percent

LatestDate == MaxOf({store[i].date : i \in DOMAIN store})

LastWindow == {i \in DOMAIN store : store[i].date >= LatestDate - 7}

PreviousWindow ==
    {i \in DOMAIN store : store[i].date >= LatestDate - 14 /\ store[i].date < LatestDate - 7}

DaysPresent == {store[i].date : i \in DOMAIN store}

IdsOfDays(days) == {i \in DOMAIN store : store[i].date \in days}

(* C14: for records covering 14 consecutive days in which the total of    *)
(* the most recent 7 days is twice the total of the 7 days before them,   *)
(* revenue_trend_percent is 100.                                          *)
C14_TwiceIsHundred ==
    (/\ IsAnalytics
     /\ DaysPresent = 1..14
     /\ AmountOver(IdsOfDays(8..14)) = 2 * AmountOver(IdsOfDays(1..7)))
        => Trend = [num |-> 100, den |-> 1]

IsDashboard == response.kind = "dashboard"

Predicted == response.body.predicted_revenue

(* The 14 most recent of the days 1 .. LastDay. *)
RecentDays == {d \in DaysPresent : d > LastDay - 14}

RECURSIVE WeightedOver(_)
WeightedOver(days) ==
    IF days = {} THEN 0
    ELSE LET d == CHOOSE x \in days : TRUE
         IN  AmountOver(IdsOfDays({d})) * (14 - (LastDay - d)) + WeightedOver(days \ {d})

RECURSIVE WeightsOver(_)
WeightsOver(days) ==
    IF days = {} THEN 0
    ELSE LET d == CHOOSE x \in days : TRUE
         IN  (14 - (LastDay - d)) + WeightsOver(days \ {d})

(* C15: predicted_revenue of the dashboard statistics is the weighted     *)
(* average of the daily totals, summed over all fleets, of the up to 14   *)
(* most recent distinct dates, the date at index i from the newest        *)
(* weighing 14 - i; it is 0 without dates, and dates beyond the 14 most   *)
(* recent do not enter it.                                                *)
C15_PredictedRevenue ==
    IsDashboard =>
        IF store = <<>> THEN Predicted = [num |-> 0, den |-> 1]
        ELSE /\ Predicted.den > 0
             /\ Predicted.num * WeightsOver(RecentDays)
                    = WeightedOver(RecentDays) * Predicted.den

C15_Witness ==
    /\ IsDashboard
    /\ LastDay = 16
    /\ store[1].amount = 60
    /\ store[2].date = 1
    /\ Cardinality(RecentDays) = 14
    /\ Predicted.num > 100 * Predicted.den

(* C16: with exactly two distinct dates whose daily totals are 100 (the   *)
(* older) and 200 (the newer), the newer date weighs 14 and the older 13, *)
(* so predicted_revenue is (100*13 + 200*14) / (13 + 14) = 4100/27,       *)
(* about 151.85.                                                          *)
TwoDates ==
    /\ IsDashboard
    /\ DaysPresent = {1, 2}
    /\ AmountOver(IdsOfDays({1})) = 100
    /\ AmountOver(IdsOfDays({2})) = 200

C16_Weights14And13 == TwoDates => Predicted = [num |-> 4100, den |-> 27]

C16_Witness == TwoDates /\ Predicted.num * 27 = 4100 * Predicted.den

(* C16 as stated: the older date weighs 1 and the newer 2, so             *)
(* predicted_revenue is (100*1 + 200*2) / (1 + 2) = 500/3.                *)
C16_Weights2And1 == TwoDates => Predicted.num * 3 = 500 * Predicted.den

(***************************************************************************)
(* Properties of the empty record set (under SpecFortnight).               *)
(***************************************************************************)
Stats == IF IsAnalytics THEN response.body.dashboard_stats ELSE response.body

NeutralStats ==
    [total_revenue |-> 0,
     total_records |-> 0,
     top_performing_fleet |-> <<"N", "/", "A">>,
     average_trip_revenue |-> [num |-> 0, den |-> 1],
     predicted_revenue |-> [num |-> 0, den |-> 1],
     revenue_trend_percent |-> [num |-> 0, den |-> 1]]

IsTwice == response.kind = "twice"

IsExcel == response.kind = "excel"

RECURSIVE FieldOver(_, _, _)
FieldOver(rows, idx, field) ==
    IF idx = {} THEN 0
    ELSE LET k == CHOOSE j \in idx : TRUE
         IN  rows[k][field] + FieldOver(rows, idx \ {k}, field)

IdsOfDate(date) == {i \in DOMAIN store : store[i].date = date}

(* C19: in the daily layout the rows with BUS CODE "Subtotal" are one per *)
(* distinct date of the records; each comes after all (date, fleet) rows  *)
(* of its date and before the rows of the later dates, and its PAX and    *)
(* REVENUE are the sums of the counts and amounts of its date's rows,     *)
(* the date's number of records and revenue.                              *)
C19_SubtotalRows ==
    IsExcel /\ store # <<>> =>
        LET rows == response.body.Daily_Subtotals
            subs == {k \in DOMAIN rows : rows[k].BUS_CODE = <<"S", "u", "b", "t", "o", "t", "a", "l">>}
            rows_of(date) == {j \in DOMAIN rows \ subs : rows[j].Date = date}
        IN  /\ {rows[k].Date : k \in subs} = {store[i].date : i \in DOMAIN store}
            /\ \A j, k \in subs : rows[j].Date = rows[k].Date => j = k
            /\ {<<rows[j].Date, rows[j].BUS_CODE>> : j \in DOMAIN rows \ subs} = DayKeys
            /\ \A k \in subs :
                   /\ rows_of(rows[k].Date) # {}
                   /\ \A j \in rows_of(rows[k].Date) : j < k
                   /\ \A j \in DOMAIN rows : j > k => rows[j].Date > rows[k].Date
                   /\ \A j \in DOMAIN rows : j < k => rows[j].Date <= rows[k].Date
                   /\ rows[k].PAX = FieldOver(rows, rows_of(rows[k].Date), "PAX")
                   /\ rows[k].PAX = Cardinality(IdsOfDate(rows[k].Date))
                   /\ rows[k].REVENUE = FieldOver(rows, rows_of(rows[k].Date), "REVENUE")
                   /\ rows[k].REVENUE = AmountOver(IdsOfDate(rows[k].Date))

C19_Witness ==
    /\ IsExcel
    /\ Len(store) = 3
    /\ Len(response.body.Daily_Subtotals) = 5
    /\ response.body.Daily_Subtotals[1].BUS_CODE = F1001
    /\ response.body.Daily_Subtotals[2].BUS_CODE = F2002
    /\ response.body.Daily_Subtotals[3].BUS_CODE = Subtotal
    /\ response.body.Daily_Subtotals[3].PAX = 2
    /\ response.body.Daily_Subtotals[3].REVENUE = 1500
    /\ response.body.Daily_Subtotals[5].BUS_CODE = Subtotal
    /\ response.body.Daily_Subtotals[5].Date = 2

(* C20: the per-fleet table has one row per fleet with PAX the number of  *)
(* records, REVENUE the summed amount, REMITTANCE                         *)
(* calculate_remittance(REVENUE, fleet, config) and FUEL USED             *)
(* REVENUE * 0.30, followed by exactly one "Grand Total" row, the last,   *)
(* whose PAX, REVENUE, REMITTANCE and FUEL USED are the sums of those     *)
(* columns over the fleet rows.                                           *)
C20_BusPerformance ==
    IsExcel /\ store # <<>> =>
        LET rows == response.body.Bus_Performance
            last == Len(rows)
            fleet_rows == 1..(last - 1)
        IN  /\ last = Cardinality(FleetCodes) + 1
            /\ {rows[k].BUS_CODE : k \in fleet_rows} = FleetCodes
            /\ \A k \in fleet_rows :
                   /\ rows[k].PAX = Cardinality(IdsOfFleet(rows[k].BUS_CODE))
                   /\ rows[k].REVENUE = AmountOver(IdsOfFleet(rows[k].BUS_CODE))
                   /\ rows[k].REMITTANCE =
                          calculate_remittance(rows[k].REVENUE, rows[k].BUS_CODE,
                                               Dict(settings)).value
                   /\ rows[k].FUEL_USED * 100 = rows[k].REVENUE * 30 * 1000
            /\ \A k \in DOMAIN rows :
                   (rows[k].BUS_CODE = <<"G", "r", "a", "n", "d", " ", "T", "o", "t", "a", "l">>)
                       <=> (k = last)
            /\ rows[last].PAX = FieldOver(rows, fleet_rows, "PAX")
            /\ rows[last].REVENUE = FieldOver(rows, fleet_rows, "REVENUE")
            /\ rows[last].REMITTANCE = FieldOver(rows, fleet_rows, "REMITTANCE")
            /\ rows[last].FUEL_USED = FieldOver(rows, fleet_rows, "FUEL_USED")

C20_Witness ==
    /\ IsExcel
    /\ settings = [k \in {Key1} |-> V50]
    /\ Len(store) = 3
    /\ Len(response.body.Bus_Performance) = 3
    /\ response.body.Bus_Performance[1] =
           [BUS_CODE |-> F1001, PAX |-> 2, REVENUE |-> 2000,
            REMITTANCE |-> 1000000, FUEL_USED |-> 600000]
    /\ response.body.Bus_Performance[2] =
           [BUS_CODE |-> F2002, PAX |-> 1, REVENUE |-> 500,
            REMITTANCE |-> 437500, FUEL_USED |-> 150000]
    /\ response.body.Bus_Performance[3] =
           [BUS_CODE |-> GrandTotal, PAX |-> 3, REVENUE |-> 2500,
            REMITTANCE |-> 1437500, FUEL_USED |-> 750000]

(***************************************************************************)
(* Properties of login, of the guards of the routes and of account         *)
(* locking (under SpecAuth).                                               *)
(***************************************************************************)
IsLogin == response.kind = "login"

Known(table, username, password) ==
    /\ username \in DOMAIN table
    /\ verify_password(password, table[username].hashed_password)

(* C22 as stated: a token is issued only to an existing, unlocked user    *)
(* with the matching password, its type is "bearer", and every login      *)
(* with an unknown username or a wrong password is answered 401 with no   *)
(* token.                                                                 *)
C22_LoginAlways401 ==
    [][response'.kind = "login" =>
          LET req == response'.request
          IN  /\ (response'.status = 200 =>
                     /\ Known(users, req.username, req.password)
                     /\ ~users[req.username].is_locked
                     /\ response'.body.token_type = "bearer"
                     /\ response'.body.access_token.sub = req.username
                     /\ response'.body.access_token.verifies)
              /\ (~Known(users, req.username, req.password) =>
                     /\ response'.status = 401
                     /\ tokens' = tokens)]_vars

(* C22: a token is issued only to an existing, unlocked user with the     *)
(* matching password, and its type is "bearer"; a login with an unknown   *)
(* username or a wrong password issues no token and is answered 401, or   *)
(* 403 when the account is locked once the attempt is recorded; a login   *)
(* with the credentials of a signup succeeds.                             *)
C22_Login ==
    [][response'.kind = "login" =>
          LET req == response'.request
          IN  /\ (response'.status = 200 =>
                     /\ Known(users, req.username, req.password)
                     /\ ~users[req.username].is_locked
                     /\ response'.body.token_type = "bearer"
                     /\ response'.body.access_token.sub = req.username
                     /\ response'.body.access_token.verifies)
              /\ (~Known(users, req.username, req.password) =>
                     /\ tokens' = tokens
                     /\ response'.status =
                            IF req.username \in DOMAIN users' /\ users'[req.username].is_locked
                            THEN 403 ELSE 401)
              /\ (response.kind = "signup" /\ response.status = 200
                     /\ response.request.username = req.username
                     /\ response.request.password = req.password
                  => /\ response'.status = 200
                     /\ response'.body.token_type = "bearer")]_vars

C22_Witness ==
    /\ IsLogin
    /\ response.status = 200
    /\ response.request.username = "alice"
    /\ response.body.token_type = "bearer"
    /\ [token |-> response.body.access_token, issued_by |-> "login"] \in tokens
    /\ users["admin"].is_locked

IsGuarded == response.kind \in {"me", "users"}

ValidToken(token) == token.verifies /\ token.sub \in DOMAIN users

(* C23: a protected route is reached only with a valid token of an         *)
(* existing user, otherwise the answer is 401; an admin-only route is      *)
(* reached only when moreover that user's role is "admin", otherwise the   *)
(* answer is 403; a user created through signup has role "user" whatever   *)
(* role was asked for, and is refused on the admin-only route.             *)
C23_RouteGuards ==
    /\ (response.kind = "me" =>
           /\ response.status = IF ValidToken(response.token) THEN 200 ELSE 401
           /\ (response.status = 200 => response.user = response.token.sub))
    /\ (response.kind = "users" =>
           response.status =
               IF ~ValidToken(response.token) THEN 401
               ELSE IF users[response.token.sub].role = "admin" THEN 200
               ELSE 403)
    /\ (response.kind = "signup" /\ response.status = 200 =>
           users[response.request.username].role = "user")
    /\ \A u \in DOMAIN users \ DOMAIN SeedUsers : users[u].role = "user"
    /\ (response.kind = "users" /\ response.token.sub \notin DOMAIN SeedUsers =>
           response.status # 200)

C23_SignupAsAdmin ==
    /\ response.kind = "signup"
    /\ response.status = 200
    /\ response.request.role = "admin"

C23_Witness ==
    /\ response.kind = "users"
    /\ response.status = 403
    /\ response.token.sub = "alice"
    /\ response.token \in Issued("login")

(* C25: an account becomes locked when its 5th consecutive wrong password *)
(* is recorded; a login for a locked account is answered 403, issues no   *)
(* token and leaves the counter alone, also with the right password; a    *)
(* successful login resets the counter to 0; and a password-reset confirm *)
(* with a reset token of the user sets the counter to 0 and unlocks the   *)
(* account, which nothing else does.                                      *)
C25_AccountLocking ==
    [][/\ (response'.kind = "login" /\ response'.request.username \in DOMAIN users =>
              LET u == response'.request.username
                  right == verify_password(response'.request.password,
                                           users[u].hashed_password)
              IN  IF users[u].is_locked
                  THEN /\ response'.status = 403
                       /\ tokens' = tokens
                       /\ users' = users
                  ELSE IF right
                  THEN /\ response'.status = 200
                       /\ users'[u].failed_login_attempts = 0
                       /\ ~users'[u].is_locked
                  ELSE /\ users'[u].failed_login_attempts =
                              users[u].failed_login_attempts + 1
                       /\ users'[u].is_locked =
                              (users'[u].failed_login_attempts = LockThreshold)
                       /\ tokens' = tokens)
       /\ (response'.kind = "reset_confirm"
              /\ response'.token \in Issued("password_reset_request")
              /\ response'.token.sub \in DOMAIN users =>
              /\ users'[response'.token.sub].failed_login_attempts = 0
              /\ ~users'[response'.token.sub].is_locked)
       /\ \A u \in DOMAIN users :
              users[u].is_locked /\ ~users'[u].is_locked =>
                  response'.kind = "reset_confirm"]_vars

(* The clauses of C25 about login alone. *)
C25_LoginLocking ==
    [][response'.kind = "login" /\ response'.request.username \in DOMAIN users =>
          LET u == response'.request.username
              right == verify_password(response'.request.password,
                                       users[u].hashed_password)
          IN  IF users[u].is_locked
              THEN /\ response'.status = 403
                   /\ tokens' = tokens
                   /\ users' = users
              ELSE IF right
              THEN /\ response'.status = 200
                   /\ users'[u].failed_login_attempts = 0
                   /\ ~users'[u].is_locked
              ELSE /\ users'[u].failed_login_attempts =
                          users[u].failed_login_attempts + 1
                   /\ users'[u].is_locked =
                          (users'[u].failed_login_attempts = LockThreshold)
                   /\ tokens' = tokens]_vars

(* C27: a token that get_current_user accepts for a protected route was   *)
(* issued by a successful login of the user it authenticates, and a token *)
(* issued by password-reset-request never authenticates such a request.   *)
C27_OnlyLoginTokens ==
    IsGuarded =>
        /\ (response.status # 401 =>
               /\ response.token \in Issued("login")
               /\ response.user = response.token.sub)
        /\ (response.token \in Issued("password_reset_request") =>
               response.status = 401)

(***************************************************************************)
(* Properties of maintenance mode (under SpecMaint).                       *)
(***************************************************************************)
MaintenanceOn(table) ==
    /\ MAINTENANCE_MODE \in DOMAIN table
    /\ upper(table[MAINTENANCE_MODE]) = StrTRUE

Exempt(method, path) ==
    \/ method = "OPTIONS"
    \/ path = RootPath
    \/ \E prefix \in {<<"/auth">>, <<"/docs">>, <<"/openapi.json">>, <<"/health">>} :
           SubSeq(path, 1, 1) = prefix

AdminBearer(authorization) ==
    /\ authorization.bearer
    /\ authorization.token \in {t.token : t \in tokens}
    /\ authorization.token.sub \in DOMAIN users
    /\ users[authorization.token.sub].role = "admin"

RequestRule ==
    response.kind = "request" =>
        (response.outcome = "503") =
            (/\ MaintenanceOn(settings)
             /\ ~Exempt(response.method, response.path)
             /\ ~AdminBearer(response.authorization))

ToggleRule ==
    response'.kind = "toggle" /\ response'.status = 200 =>
        /\ MAINTENANCE_MODE \in DOMAIN settings'
        /\ settings'[MAINTENANCE_MODE] =
               IF MaintenanceOn(settings) THEN StrFalse ELSE StrTrue
        /\ response'.body.maintenance_mode = settings'[MAINTENANCE_MODE]
        /\ \A k \in DOMAIN settings : k # MAINTENANCE_MODE =>
               k \in DOMAIN settings' /\ settings'[k] = settings[k]

C26_WitnessToggle ==
    /\ response.kind = "toggle"
    /\ response.status = 200
    /\ response.body.maintenance_mode = StrTrue

(***************************************************************************)
(* Properties of the upload (under SpecUpload).                            *)
(***************************************************************************)
Extension(filename) ==
    IF Len(filename) >= 4 /\ filename[Len(filename) - 3] = "."
    THEN upper(SubSeq(filename, Len(filename) - 2, Len(filename)))
    ELSE IF Len(filename) >= 5 /\ filename[Len(filename) - 4] = "."
    THEN upper(SubSeq(filename, Len(filename) - 3, Len(filename)))
    ELSE <<>>

HeaderNames(file) == {upper(strip(file.columns[k])) : k \in DOMAIN file.columns}

IsRejected(file) ==
    \/ Extension(file.filename) \notin {<<"C", "S", "V">>, <<"X", "L", "S", "X">>}
    \/ file.size > 10
    \/ ~file.readable
    \/ file.rows = <<>>
    \/ HeaderNames(file) \cap {<<"D", "A", "T", "E">>} = {}
    \/ HeaderNames(file) \cap {<<"F", "L", "E", "E", "T">>, <<"B", "U", "S">>} = {}
    \/ HeaderNames(file) \cap {<<"A", "M", "O", "U", "N", "T">>, <<"T", "O", "T", "A", "L">>} = {}

Dated(file) == {k \in DOMAIN file.rows : file.rows[k].Date.parses}

RECURSIVE DatedRows(_, _)
DatedRows(files, accepted) ==
    IF accepted = {} THEN 0
    ELSE LET f == CHOOSE g \in accepted : TRUE
         IN  Cardinality(Dated(files[f])) + DatedRows(files, accepted \ {f})

FromFile(record, files, accepted) ==
    \E f \in accepted : \E k \in Dated(files[f]) :
        /\ record.date = files[f].rows[k].Date.day
        /\ record.fleet = normalize_fleet(files[f].rows[k].Fleet)
        /\ record.amount = IF files[f].rows[k].Amount.numeric
                           THEN files[f].rows[k].Amount.value ELSE 0

C24_WitnessRefused ==
    /\ response.kind = "upload"
    /\ response.status = 400
    /\ response.message = "Import failed"
    /\ Len(response.files) = 2

(* C29: for the same stored records the statistics of                    *)
(* get_dashboard_stats and those of process_analytics agree on            *)
(* total_revenue, total_records, average_trip_revenue and                 *)
(* top_performing_fleet, whatever create_record and upload_files stored.  *)
C29_EndpointsAgree ==
    IsDashboard =>
        LET engine == process_analytics(get_filtered_query(store), settings).dashboard_stats
        IN  /\ response.body.total_revenue = engine.total_revenue
            /\ response.body.total_records = engine.total_records
            /\ response.body.average_trip_revenue = engine.average_trip_revenue
            /\ response.body.top_performing_fleet = engine.top_performing_fleet

(* The three aggregates that do not depend on the fleet label. *)
C29_TotalsAgree ==
    IsDashboard =>
        LET engine == process_analytics(get_filtered_query(store), settings).dashboard_stats
        IN  /\ response.body.total_revenue = engine.total_revenue
            /\ response.body.total_records = engine.total_records
            /\ response.body.average_trip_revenue = engine.average_trip_revenue

(***************************************************************************)
(* Properties of overlapping requests (under SpecShared).                  *)
(***************************************************************************)
Processed(c) == calls[c].pc \in {"processed", "generated", "returned"}

ConfigRead(c) == IF "config" \in DOMAIN calls[c] THEN calls[c].config.items ELSE EmptyDict

(* The result of the request of c is that of a run on its snapshot alone. *)
Alone(c) ==
    Processed(c) =>
        calls[c].analytics = process_analytics(calls[c].records, ConfigRead(c))

(* Nothing but the request itself touches its local variables. *)
Private(c) ==
    \A name \in DOMAIN calls[c] :
        calls'[c].pc = calls[c].pc \/ name = "pc" \/
            (name \in DOMAIN calls'[c] /\ calls'[c][name] = calls[c][name])

(* C21: under every interleaving of the steps of overlapping analytics    *)
(* requests with each other and with writes to both tables, the result    *)
(* of each request is the one process_analytics gives for the records     *)
(* it queried and the configuration it read.                              *)
C21_Isolated ==
    /\ [](\A c \in Callers : Alone(c))
    /\ [][\A c \in Callers :
             /\ Private(c)
             /\ (calls'[c] # calls[c] => \A d \in Callers \ {c} : calls'[d] = calls[d])]_vars

(* Two requests that overlapped, on different snapshots and rates, while  *)
(* the table went on growing.                                             *)
C21_Witness ==
    /\ \A c \in Callers : Processed(c)
    /\ calls[1].records # <<>>
    /\ Len(calls[2].records) > Len(calls[1].records)
    /\ ConfigRead(1) # ConfigRead(2)
    /\ calls[1].analytics.fleet_summaries # calls[2].analytics.fleet_summaries
    /\ ~calls[1].pc = "returned"
    /\ ~calls[2].pc = "returned"

(* C28: the REMITTANCE of every fleet row of the performance table of a   *)
(* workbook equals the remittance of that fleet's summary in the          *)
(* analytics the workbook was generated from, however update_setting      *)
(* calls interleave with the download.                                    *)
C28_SameRemittance ==
    \A c \in Callers :
        calls[c].pc \in {"generated", "returned"} /\ calls[c].op = "download"
                /\ calls[c].records # <<>> =>
            LET table == calls[c].workbook.Bus_Performance
                summaries == calls[c].analytics.fleet_summaries
            IN  \A k \in DOMAIN table :
                    table[k].BUS_CODE # GrandTotal =>
                        \E j \in DOMAIN summaries :
                            /\ summaries[j].fleet = table[k].BUS_CODE
                            /\ summaries[j].remittance = table[k].REMITTANCE

====
